---- MODULE Spec2Model ----
(***************************************************************************)
(* DeepSlate: the response extractor (extractJson), the analysis boundary  *)
(* (analyzeProblem / handleAnalyze) and the level assignment of the        *)
(* reasoning graph (ConceptGraph).                                          *)
(*                                                                         *)
(* A text is a sequence of one-character strings.  Indexes of the          *)
(* extractor (startIndex, endIndex, i) are 0-based as in the source, so     *)
(* character i of a text s is s[i + 1].                                     *)
(*                                                                         *)
(* A parsed JSON value is a pair <<tag, body>>:                             *)
(*   <<"str", chars>>   <<"num", digits>>   <<"lit", letters>>              *)
(*   <<"arr", values>>  <<"obj", sequence of <<key chars, value>> >>        *)
(***************************************************************************)
EXTENDS Integers, Sequences, FiniteSets, TLC

\* ------------------------------------------------------------------ bounds
MaxProse == 1
MaxStr == 1
MaxEdges == 3
MaxDangling == 2
MaxRuns == 2
MaxSteps == 3
MaxPasses == 2
MaxCoord == 1
MaxSize == 3
MaxCards == 3
MaxTimers == 2
MaxAsks == 1
MaxChat == 4
MaxDelta == 3

\* ------------------------------------------------------- JSON.parse model
Q == "\""
BS == "\\"
NL == "\n"
\* the backtick character (it cannot be written inside a TLA+ string)
BT == "backtick"

Failed == [ok |-> FALSE, pos |-> 0, val |-> <<>>]
Parsed(p, v) == [ok |-> TRUE, pos |-> p, val |-> v]

IsWs(c) == c \in {" ", "\n", "\t", "\r"}
IsDigit(c) == c \in {"0", "1", "2", "3", "4", "5", "6", "7", "8", "9"}
IsControl(c) == c \in {"\n", "\t", "\r"}

Min(S) == CHOOSE x \in S : \A y \in S : x <= y
Max(S) == CHOOSE x \in S : \A y \in S : x >= y

\* the first position from p on that holds no blank (Len(s) + 1 when there is none)
SkipWs(s, p) ==
    IF p > Len(s) THEN p
    ELSE Min({q \in p..(Len(s) + 1) : q = Len(s) + 1 \/ ~IsWs(s[q])})

Unescape(e) ==
    CASE e = "n" -> "\n"
      [] e = "t" -> "\t"
      [] e = "r" -> "\r"
      [] OTHER -> e

\* the body of a string literal, from the character after the opening quote
RECURSIVE ParseChars(_, _, _)
ParseChars(s, p, acc) ==
    IF p > Len(s) THEN Failed
    ELSE IF s[p] = Q THEN Parsed(p + 1, <<"str", acc>>)
    ELSE IF s[p] = BS THEN
        IF p + 1 <= Len(s) /\ s[p + 1] \in {Q, BS, "/", "n", "t", "r"}
        THEN ParseChars(s, p + 2, Append(acc, Unescape(s[p + 1])))
        ELSE Failed
    ELSE IF IsControl(s[p]) THEN Failed
    ELSE ParseChars(s, p + 1, Append(acc, s[p]))

\* the first position from p on that holds no digit
DigitsEnd(s, p) == Min({q \in p..(Len(s) + 1) : q = Len(s) + 1 \/ ~IsDigit(s[q])})

ParseNumber(s, p) ==
    LET e == DigitsEnd(s, p)
    IN  IF s[p] = "0" /\ e > p + 1 THEN Parsed(p + 1, <<"num", <<"0">>>>)
        ELSE Parsed(e, <<"num", SubSeq(s, p, e - 1)>>)

HasWord(s, p, w) == p + Len(w) - 1 <= Len(s) /\ SubSeq(s, p, p + Len(w) - 1) = w

Literals == {<<"t", "r", "u", "e">>, <<"f", "a", "l", "s", "e">>, <<"n", "u", "l", "l">>}

\* a later member with the same key replaces the value of the earlier one
PutMember(acc, k, v) ==
    IF \E j \in 1..Len(acc) : acc[j][1] = k
    THEN [j \in 1..Len(acc) |-> IF acc[j][1] = k THEN <<k, v>> ELSE acc[j]]
    ELSE Append(acc, <<k, v>>)

RECURSIVE ParseValue(_, _)
RECURSIVE ParseMembers(_, _, _)
RECURSIVE ParseElements(_, _, _)

\* p is at the first non-blank character of a member: "key" : value [, | }]
ParseMembers(s, p, acc) ==
    IF p > Len(s) \/ s[p] # Q THEN Failed
    ELSE LET k == ParseChars(s, p + 1, <<>>)
         IN  IF ~k.ok THEN Failed
             ELSE LET c == SkipWs(s, k.pos)
                  IN  IF c > Len(s) \/ s[c] # ":" THEN Failed
                      ELSE LET v == ParseValue(s, SkipWs(s, c + 1))
                           IN  IF ~v.ok THEN Failed
                               ELSE LET m == SkipWs(s, v.pos)
                                        acc2 == PutMember(acc, k.val[2], v.val)
                                    IN  IF m > Len(s) THEN Failed
                                        ELSE IF s[m] = "}" THEN Parsed(m + 1, <<"obj", acc2>>)
                                        ELSE IF s[m] = ","
                                             THEN ParseMembers(s, SkipWs(s, m + 1), acc2)
                                        ELSE Failed

\* p is at the first non-blank character of an element: value [, | ]]
ParseElements(s, p, acc) ==
    LET v == ParseValue(s, p)
    IN  IF ~v.ok THEN Failed
        ELSE LET m == SkipWs(s, v.pos)
                 acc2 == Append(acc, v.val)
             IN  IF m > Len(s) THEN Failed
                 ELSE IF s[m] = "]" THEN Parsed(m + 1, <<"arr", acc2>>)
                 ELSE IF s[m] = "," THEN ParseElements(s, SkipWs(s, m + 1), acc2)
                 ELSE Failed

ParseValue(s, p) ==
    IF p > Len(s) THEN Failed
    ELSE IF s[p] = "{" THEN
        LET m == SkipWs(s, p + 1)
        IN  IF m <= Len(s) /\ s[m] = "}" THEN Parsed(m + 1, <<"obj", <<>>>>)
            ELSE ParseMembers(s, m, <<>>)
    ELSE IF s[p] = "[" THEN
        LET m == SkipWs(s, p + 1)
        IN  IF m <= Len(s) /\ s[m] = "]" THEN Parsed(m + 1, <<"arr", <<>>>>)
            ELSE ParseElements(s, m, <<>>)
    ELSE IF s[p] = Q THEN ParseChars(s, p + 1, <<>>)
    ELSE IF IsDigit(s[p]) THEN ParseNumber(s, p)
    ELSE IF \E w \in Literals : HasWord(s, p, w)
         THEN LET w == CHOOSE w \in Literals : HasWord(s, p, w)
              IN  Parsed(p + Len(w), <<"lit", w>>)
    ELSE Failed

\* JSON.parse(s): ok = FALSE stands for the SyntaxError it throws
JSONparse(s) ==
    LET v == ParseValue(s, SkipWs(s, 1))
    IN  IF v.ok /\ SkipWs(s, v.pos) = Len(s) + 1 THEN [ok |-> TRUE, val |-> v.val]
        ELSE [ok |-> FALSE, val |-> <<>>]

\* ------------------------------------------------------- string helpers
\* String.prototype.replace(/<w>\s*/g, ''): every occurrence of the word w,
\* scanned left to right, is removed together with the blanks that follow it
RECURSIVE RemoveAll(_, _, _, _)
RemoveAll(s, p, w, acc) ==
    LET found == {q \in p..Len(s) : HasWord(s, q, w)}
    IN  IF found = {} THEN acc \o SubSeq(s, p, Len(s))
        ELSE LET q == Min(found)
             IN  RemoveAll(s, SkipWs(s, q + Len(w)), w, acc \o SubSeq(s, p, q - 1))

TrimEnd(s) == SubSeq(s, 1, Max({q \in 0..Len(s) : q = 0 \/ ~IsWs(s[q])}))

\* String.prototype.trim()
Trim(s) == TrimEnd(SubSeq(s, SkipWs(s, 1), Len(s)))

Fence == <<BT, BT, BT>>
FenceJson == <<BT, BT, BT, "j", "s", "o", "n">>

\* text.replace(/```json\s*/g, '').replace(/```\s*/g, '').trim()
StripFences(s) == Trim(RemoveAll(RemoveAll(s, 1, FenceJson, <<>>), 1, Fence, <<>>))

\* String.prototype.indexOf(c), 0-based, -1 when c does not occur
IndexOf(s, c) ==
    IF \E p \in 1..Len(s) : s[p] = c
    THEN (CHOOSE p \in 1..Len(s) : s[p] = c /\ \A q \in 1..(p - 1) : s[q] # c) - 1
    ELSE -1

LastIndexOf(s, c) ==
    IF \E p \in 1..Len(s) : s[p] = c
    THEN (CHOOSE p \in 1..Len(s) : s[p] = c /\ \A q \in (p + 1)..Len(s) : s[q] # c) - 1
    ELSE -1

\* String.prototype.substring(from, to) with 0-based from and exclusive to
Substring(s, from, to) == SubSeq(s, from + 1, to)

\* cleanText.match(/\{[\s\S]*\}/): the span from the first '{' to the last '}'
\* after it; ok = FALSE stands for the null of a failed match
RegexMatch(s) ==
    LET a == IndexOf(s, "{")
        b == LastIndexOf(s, "}")
    IN  IF a # -1 /\ b > a THEN [ok |-> TRUE, val |-> Substring(s, a, b + 1)]
        ELSE [ok |-> FALSE, val |-> <<>>]

\* values that JavaScript treats as false in a condition: null, false, 0, ""
Falsy(v) ==
    \/ v = <<"lit", <<"n", "u", "l", "l">>>>
    \/ v = <<"lit", <<"f", "a", "l", "s", "e">>>>
    \/ v = <<"num", <<"0">>>>
    \/ v = <<"str", <<>>>>

\* v.name for a parsed value v: ok = FALSE stands for undefined
HasMember(v, name) == v[1] = "obj" /\ \E j \in 1..Len(v[2]) : v[2][j][1] = name
Member(v, name) == v[2][CHOOSE j \in 1..Len(v[2]) : v[2][j][1] = name][2]
Range(q) == {q[k] : k \in 1..Len(q)}

\* ------------------------------------------------------------------ state
VARIABLES
    input,              \* how the response text was put together (never read by the code)
    text,               \* extractJson: the argument
    epc,                \* extractJson: the place reached
    cleanText, startIndex, braceCount, inString, escaped, endIndex, i,
    ret,                \* extractJson: what it returned
    attempts,           \* the stages whose JSON.parse was called, in order
    apc,                \* handleAnalyze / analyzeProblem: the place reached
    promise,            \* the promise analyzeProblem returned
    loading, result, error, messages, focusedStepIndex, user,
    data,               \* ConceptGraph: the data prop (nodes and edges of the graph)
    nodes, links,       \* ConceptGraph: the copies of data.nodes and data.edges
    lpc,                \* ConceptGraph effect: the place reached
    li,                 \* position of links.forEach
    incomingCount, adj, queue, visited, levels,
    assigned,           \* how many times levels[id] was written, per id
    iterations,         \* iterations of the while loop so far
    runs,               \* how many times the effect has run on this data
    prevLevels,         \* the level map of the previous run
    clicked,            \* handleGraphNodeClick: the node it was last called with
    selectedNode,       \* ConceptGraph: the selected node (NoNode: null)
    dimensions,         \* ConceptGraph: the size of the container, as last observed
    pass,               \* ConceptGraph: how many times the effect body has started
    svgMounted,         \* svgRef.current is an element
    content,            \* the pass whose elements are in the SVG (0: none)
    live,               \* the pass whose cleanup function React holds (0: none)
    timers,             \* the passes whose zoom-fit timeout is pending
    simRunning,         \* the passes whose simulation timer is scheduled
    transitions,        \* the passes whose zoom-fit transition is running on the SVG
    cleaned,            \* the passes whose cleanup function has run
    staleActs,          \* what callbacks of cleaned passes did to the SVG
    pos,                \* the simulation nodes of the pass in the SVG: x, y, fx, fy
    gesture,            \* per node: the drag gesture on it and its latest event
    bbox,               \* ConceptGraph: what getBBox() of the drawn group reports
    transform,          \* ConceptGraph: the zoom transform the last zoom-fit asked for
    analyzeUser,        \* handleAnalyze: the user its closure holds (from the render it was made in)
    graphViewMode,      \* App: 'reasoning' or 'flashcards'
    currentIndex,       \* FlashcardDeck: the state of the mounted deck
    deckTimers,         \* FlashcardDeck: the pending 300 ms timeouts of the mounted deck
    asking,             \* handleSendMessage: the calls awaiting askFollowUpQuestion
    widths,             \* App: the three panel widths, in percent
    isResizing,         \* App: isResizing.current (NoIndex: null)
    movement            \* handleMouseMove: deltaPercentage of the latest mousemove event

evars == <<input, text, epc, cleanText, startIndex, braceCount, inString, escaped,
           endIndex, i, ret, attempts>>
avars == <<apc, promise, loading, result, error, messages, focusedStepIndex, user>>
gvars == <<data, nodes, links, lpc, li, incomingCount, adj, queue, visited, levels,
           assigned, iterations, runs, prevLevels>>
cvars == <<clicked, selectedNode>>
rvars == <<dimensions, pass, svgMounted, content, live, timers, simRunning, transitions, cleaned, staleActs, pos,
           gesture>>
xvars == <<cvars, rvars>>
fvars == <<bbox, transform>>
pvars == <<analyzeUser, graphViewMode, currentIndex, deckTimers, asking, widths, isResizing,
           movement>>
zvars == <<fvars, pvars>>
vars == <<evars, avars, gvars, xvars, zvars>>

NoValue == <<>>
NoRet == [kind |-> "none", val |-> NoValue]
NullResult == [isNull |-> TRUE, parsedData |-> [kind |-> "none", val |-> NoValue],
               rawText |-> <<>>]
NullUser == [isNull |-> TRUE, history |-> <<>>, revisionList |-> <<>>, xp |-> 0, level |-> 1]
NoPromise == [state |-> "pending", data |-> NullResult, message |-> "none"]
NoIndex == -1

\* ------------------------------------------------------------- the inputs
SeqsUpTo(S, n) == UNION {[1..k -> S] : k \in 0..n}

RECURSIVE Flatten(_)
Flatten(ss) == IF Len(ss) = 0 THEN <<>> ELSE Head(ss) \o Flatten(Tail(ss))

\* prose around the payload: letters, braces and quotes; up to MaxProse characters
\* before it and at most one after it
ProseChars == {"x", "{", "}", Q}
PreProse == SeqsUpTo(ProseChars, MaxProse)
PostProse == {<<>>} \cup {<<c>> : c \in ProseChars}

\* code-fence wrapping: none, ```json ... ```, ``` ... ```
Wraps == {<<<<>>, <<>>>>, <<FenceJson \o <<NL>>, <<NL>> \o Fence>>, <<Fence, Fence>>}

\* what a JSON string literal is made of: plain characters, braces, escapes, a fence
StrItems == {<<"x">>, <<"{">>, <<"}">>, <<BS, Q>>, <<BS, BS>>, Fence}
StrLits == {<<Q>> \o Flatten(b) \o <<Q>> : b \in SeqsUpTo(StrItems, MaxStr)}

\* the payloads: a string, a number, an empty object, and an object with one of these
\* as its member
PlainDocs == StrLits \cup {<<"1">>, <<"{", "}">>}
JsonDocs == PlainDocs \cup {<<"{", Q, "k", Q, ":">> \o v \o <<"}">> : v \in PlainDocs}

Inputs ==
    {[pre |-> pre, open |-> w[1], doc |-> d, close |-> w[2], post |-> post] :
        pre \in PreProse, post \in PostProse, w \in Wraps, d \in JsonDocs}

TextOf(in) == in.pre \o in.open \o in.doc \o in.close \o in.post
NoInput == [pre |-> <<>>, open |-> <<>>, doc |-> <<>>, close |-> <<>>, post |-> <<>>]

\* ------------------------------------------------------------ extractJson
Return(kind, v) ==
    /\ ret' = [kind |-> kind, val |-> v]
    /\ epc' = "returned"

\* StrictParse with the fences stripped before the first parse
StrictParse_CleansFirst ==
    /\ epc = "strict"
    /\ attempts' = Append(attempts, "strict")
    /\ LET r == JSONparse(StripFences(text))
       IN  IF r.ok THEN Return("value", r.val)
           ELSE epc' = "clean" /\ ret' = ret
    /\ UNCHANGED <<input, text, cleanText, startIndex, braceCount, inString, escaped,
                   endIndex, i>>
    /\ UNCHANGED <<avars, gvars>>
    /\ UNCHANGED <<xvars, zvars>>

\* 1. try { return JSON.parse(text) } catch { continue }
StrictParse ==
    /\ epc = "strict"
    /\ attempts' = Append(attempts, "strict")
    /\ LET r == JSONparse(text)
       IN  IF r.ok THEN Return("value", r.val)
           ELSE epc' = "clean" /\ ret' = ret
    /\ UNCHANGED <<input, text, cleanText, startIndex, braceCount, inString, escaped,
                   endIndex, i>>
    /\ UNCHANGED <<avars, gvars>>
    /\ UNCHANGED <<xvars, zvars>>

\* 2-3. strip the code fences, try { return JSON.parse(cleanText) } catch { continue }
ParseCleaned ==
    /\ epc = "clean"
    /\ cleanText' = StripFences(text)
    /\ attempts' = Append(attempts, "cleaned")
    /\ LET r == JSONparse(cleanText')
       IN  IF r.ok THEN Return("value", r.val)
           ELSE epc' = "find" /\ ret' = ret
    /\ UNCHANGED <<input, text, startIndex, braceCount, inString, escaped, endIndex, i>>
    /\ UNCHANGED <<avars, gvars>>
    /\ UNCHANGED <<xvars, zvars>>

\* 4. startIndex = cleanText.indexOf('{'); without a brace the result is null
FindStart ==
    /\ epc = "find"
    /\ startIndex' = IndexOf(cleanText, "{")
    /\ IF startIndex' = -1
       THEN /\ Return("null", NoValue)
            /\ UNCHANGED <<braceCount, inString, escaped, endIndex, i>>
       ELSE /\ braceCount' = 0
            /\ inString' = FALSE
            /\ escaped' = FALSE
            /\ endIndex' = -1
            /\ i' = startIndex'
            /\ epc' = "scan"
            /\ ret' = ret
    /\ UNCHANGED <<input, text, cleanText, attempts>>
    /\ UNCHANGED <<avars, gvars>>
    /\ UNCHANGED <<xvars, zvars>>

\* ScanStep without the escaped flag: every quote read in string mode leaves it
ScanStep_NoEscape ==
    /\ epc = "scan"
    /\ endIndex = -1
    /\ i < Len(cleanText)
    /\ LET char == cleanText[i + 1]
       IN  IF inString
           THEN /\ inString' = (char # Q)
                /\ UNCHANGED <<braceCount, endIndex, escaped>>
                /\ i' = i + 1
           ELSE IF char = "{"
                THEN /\ braceCount' = braceCount + 1
                     /\ i' = i + 1
                     /\ UNCHANGED <<inString, escaped, endIndex>>
           ELSE IF char = "}"
                THEN /\ braceCount' = braceCount - 1
                     /\ IF braceCount' = 0
                        THEN endIndex' = i /\ i' = i
                        ELSE endIndex' = endIndex /\ i' = i + 1
                     /\ UNCHANGED <<inString, escaped>>
           ELSE IF char = Q
                THEN /\ inString' = TRUE
                     /\ i' = i + 1
                     /\ UNCHANGED <<braceCount, escaped, endIndex>>
           ELSE /\ i' = i + 1
                /\ UNCHANGED <<braceCount, inString, escaped, endIndex>>
    /\ UNCHANGED <<input, text, epc, cleanText, startIndex, ret, attempts>>
    /\ UNCHANGED <<avars, gvars>>
    /\ UNCHANGED <<xvars, zvars>>

\* ScanStep counting every brace, also those inside string literals
ScanStep_Naive ==
    /\ epc = "scan"
    /\ endIndex = -1
    /\ i < Len(cleanText)
    /\ LET char == cleanText[i + 1]
       IN  IF char = "{"
           THEN /\ braceCount' = braceCount + 1
                /\ i' = i + 1
                /\ UNCHANGED endIndex
           ELSE IF char = "}"
           THEN /\ braceCount' = braceCount - 1
                /\ IF braceCount' = 0
                   THEN endIndex' = i /\ i' = i
                   ELSE endIndex' = endIndex /\ i' = i + 1
           ELSE /\ i' = i + 1
                /\ UNCHANGED <<braceCount, endIndex>>
    /\ UNCHANGED <<inString, escaped>>
    /\ UNCHANGED <<input, text, epc, cleanText, startIndex, ret, attempts>>
    /\ UNCHANGED <<avars, gvars>>
    /\ UNCHANGED <<xvars, zvars>>

\* one iteration of the for loop over cleanText
ScanStep ==
    /\ epc = "scan"
    /\ endIndex = -1
    /\ i < Len(cleanText)
    /\ LET char == cleanText[i + 1]
       IN  IF inString
           THEN /\ IF escaped THEN escaped' = FALSE /\ inString' = inString
                   ELSE IF char = BS THEN escaped' = TRUE /\ inString' = inString
                   ELSE IF char = Q THEN inString' = FALSE /\ escaped' = escaped
                   ELSE UNCHANGED <<escaped, inString>>
                /\ UNCHANGED <<braceCount, endIndex>>
                /\ i' = i + 1
           ELSE IF char = "{"
                THEN /\ braceCount' = braceCount + 1
                     /\ i' = i + 1
                     /\ UNCHANGED <<inString, escaped, endIndex>>
           ELSE IF char = "}"
                THEN /\ braceCount' = braceCount - 1
                     /\ IF braceCount' = 0
                        THEN endIndex' = i /\ i' = i
                        ELSE endIndex' = endIndex /\ i' = i + 1
                     /\ UNCHANGED <<inString, escaped>>
           ELSE IF char = Q
                THEN /\ inString' = TRUE
                     /\ i' = i + 1
                     /\ UNCHANGED <<braceCount, escaped, endIndex>>
           ELSE /\ i' = i + 1
                /\ UNCHANGED <<braceCount, inString, escaped, endIndex>>
    /\ UNCHANGED <<input, text, epc, cleanText, startIndex, ret, attempts>>
    /\ UNCHANGED <<avars, gvars>>
    /\ UNCHANGED <<xvars, zvars>>

\* after the loop: if (endIndex !== -1) try { return JSON.parse(candidate) } catch { warn }
ParseCandidate ==
    /\ epc = "scan"
    /\ endIndex # -1 \/ i >= Len(cleanText)
    /\ IF endIndex # -1
       THEN /\ attempts' = Append(attempts, "scan")
            /\ LET r == JSONparse(Substring(cleanText, startIndex, endIndex + 1))
               IN  IF r.ok THEN Return("value", r.val)
                   ELSE epc' = "regex" /\ ret' = ret
       ELSE /\ attempts' = attempts
            /\ epc' = "regex"
            /\ ret' = ret
    /\ UNCHANGED <<input, text, cleanText, startIndex, braceCount, inString, escaped,
                   endIndex, i>>
    /\ UNCHANGED <<avars, gvars>>
    /\ UNCHANGED <<xvars, zvars>>

\* RegexFallback without its try/catch: the SyntaxError of JSON.parse escapes
RegexFallback_NoCatch ==
    /\ epc = "regex"
    /\ LET jsonMatch == RegexMatch(cleanText)
       IN  IF jsonMatch.ok
           THEN /\ attempts' = Append(attempts, "regex")
                /\ LET r == JSONparse(jsonMatch.val)
                   IN  IF r.ok THEN Return("value", r.val)
                       ELSE /\ ret' = [kind |-> "throw", val |-> NoValue]
                            /\ epc' = "threw"
           ELSE /\ attempts' = attempts
                /\ Return("null", NoValue)
    /\ UNCHANGED <<input, text, cleanText, startIndex, braceCount, inString, escaped,
                   endIndex, i>>
    /\ UNCHANGED <<avars, gvars>>
    /\ UNCHANGED <<xvars, zvars>>

\* 5. try { match the greedy {...} span and parse it, else null } catch { return null }
RegexFallback ==
    /\ epc = "regex"
    /\ LET jsonMatch == RegexMatch(cleanText)
       IN  IF jsonMatch.ok
           THEN /\ attempts' = Append(attempts, "regex")
                /\ LET r == JSONparse(jsonMatch.val)
                   IN  IF r.ok THEN Return("value", r.val)
                       ELSE Return("null", NoValue)
           ELSE /\ attempts' = attempts
                /\ Return("null", NoValue)
    /\ UNCHANGED <<input, text, cleanText, startIndex, braceCount, inString, escaped,
                   endIndex, i>>
    /\ UNCHANGED <<avars, gvars>>
    /\ UNCHANGED <<xvars, zvars>>

\* ----------------------------------------- analyzeProblem, handleAnalyze
\* handleAnalyze up to the await, with a file or a text to analyse; its button is on
\* the dashboard, which is drawn when there is no result and nothing is loading
HandleAnalyze ==
    /\ apc = "idle"
    /\ result.isNull /\ ~loading
    /\ loading' = TRUE
    /\ error' = "none"
    /\ result' = NullResult
    /\ focusedStepIndex' = NoIndex
    /\ graphViewMode' = "reasoning"
    /\ currentIndex' = 0
    /\ deckTimers' = <<>>
    /\ analyzeUser' = user
    /\ apc' = "awaiting"
    /\ epc' = "strict"
    /\ UNCHANGED <<input, text, cleanText, startIndex, braceCount, inString, escaped,
                   endIndex, i, ret, attempts>>
    /\ UNCHANGED <<promise, messages, user>>
    /\ UNCHANGED gvars
    /\ UNCHANGED <<xvars, fvars, asking, widths, isResizing, movement>>

\* analyzeProblem after extractJson(text): a falsy parsedData is thrown as an Error,
\* which the catch block logs and throws again
AnalyzeProblemSettle ==
    /\ apc = "awaiting"
    /\ epc = "returned"
    /\ IF ret.kind = "null" \/ Falsy(ret.val)
       THEN promise' = [state |-> "rejected", data |-> NullResult,
                        message |-> "Failed to parse analysis response."]
       ELSE promise' = [state |-> "fulfilled",
                        data |-> [isNull |-> FALSE, parsedData |-> ret, rawText |-> text],
                        message |-> "none"]
    /\ apc' = "settled"
    /\ UNCHANGED <<evars, gvars>>
    /\ UNCHANGED <<loading, result, error, messages, focusedStepIndex, user>>
    /\ UNCHANGED <<xvars, zvars>>

StudentAnalysis == <<"s", "t", "u", "d", "e", "n", "t", "_", "a", "n", "a", "l", "y", "s", "i", "s">>
ChatResponse == <<"c", "h", "a", "t", "_", "r", "e", "s", "p", "o", "n", "s", "e">>

\* data.parsedData.student_analysis.map(...) and data.parsedData.chat_response.opening
\* evaluate without a TypeError
HasStepsAndChat(v) ==
    /\ HasMember(v, StudentAnalysis)
    /\ Member(v, StudentAnalysis)[1] = "arr"
    /\ HasMember(v, ChatResponse)
    /\ Member(v, ChatResponse)[1] = "obj"

\* the three messages a result opens its conversation with; of is the result whose
\* chat_response and steps their content is made of
InitialMessages(prefix, r) ==
    [k \in 1..3 |-> [id |-> <<prefix, k>>, role |-> "assistant", of |-> r.rawText]]

\* handleAnalyze after the await: the try body, the catch and the finally; user is
\* the one of the render in which handleAnalyze was called
HandleAnalyzeSettle ==
    /\ apc = "settled"
    /\ IF promise.state = "fulfilled"
       THEN /\ user' = (IF analyzeUser.isNull THEN user
                        ELSE [analyzeUser EXCEPT !.history = <<promise.data>> \o @,
                                                 !.xp = @ + 50,
                                                 !.level = ((analyzeUser.xp + 50) \div 100) + 1])
            /\ result' = promise.data
            /\ IF HasStepsAndChat(promise.data.parsedData.val)
               THEN /\ messages' = InitialMessages("init", promise.data)
                    /\ error' = error
               ELSE /\ messages' = messages
                    /\ error' = "TypeError"
       ELSE /\ error' = promise.message
            /\ UNCHANGED <<user, result, messages>>
    /\ loading' = FALSE
    /\ apc' = "done"
    /\ UNCHANGED <<evars, gvars>>
    /\ UNCHANGED <<promise, focusedStepIndex>>
    /\ UNCHANGED <<xvars, zvars>>

\* ------------------------------------------- ConceptGraph: the levelling
NoLevel == -1
EmptyMap == <<>>
\* data.edges is undefined when edgesMissing holds (edges is then the empty sequence)
NoData == [nodes |-> <<>>, edges |-> <<>>, edgesMissing |-> FALSE]

Has(m, k) == k \in DOMAIN m
Put(m, k, v) == [x \in (DOMAIN m) \cup {k} |-> IF x = k THEN v ELSE m[x]]

Ids(ns) == {ns[k].id : k \in 1..Len(ns)}

\* nodes = data.nodes.map(d => ({...d})), links = data.edges.map(...), and the
\* nodes.forEach that starts incomingCount and adj; data.edges.map is a TypeError
\* when data.edges is undefined
InitMaps ==
    /\ lpc = "start"
    /\ nodes' = [k \in 1..Len(data.nodes) |-> data.nodes[k]]
    /\ IF data.edgesMissing
       THEN /\ lpc' = "threw"
            /\ UNCHANGED <<links, levels, incomingCount, adj, assigned, iterations, li,
                           queue>>
       ELSE /\ links' = [k \in 1..Len(data.edges) |->
                            [source |-> data.edges[k].from, target |-> data.edges[k].to]]
            /\ levels' = EmptyMap
            /\ incomingCount' = [x \in Ids(data.nodes) |-> 0]
            /\ adj' = [x \in Ids(data.nodes) |-> <<>>]
            /\ assigned' = [x \in {} |-> 0]
            /\ iterations' = 0
            /\ li' = 0
            /\ queue' = <<>>
            /\ lpc' = "links"
    /\ UNCHANGED <<data, visited, runs, prevLevels>>
    /\ UNCHANGED <<evars, avars>>
    /\ UNCHANGED <<xvars, zvars>>

\* LinkStep with the two ends of the link exchanged
LinkStep_Reversed ==
    /\ lpc = "links"
    /\ li < Len(links)
    /\ LET l == links[li + 1]
       IN  /\ incomingCount' = Put(incomingCount, l.source,
                                   (IF Has(incomingCount, l.source)
                                    THEN incomingCount[l.source] ELSE 0) + 1)
           /\ IF Has(adj, l.target)
              THEN /\ adj' = [adj EXCEPT ![l.target] = Append(@, l.source)]
                   /\ li' = li + 1
                   /\ lpc' = lpc
              ELSE /\ lpc' = "threw"
                   /\ UNCHANGED <<adj, li>>
    /\ UNCHANGED <<data, nodes, links, queue, visited, levels, assigned, iterations,
                   runs, prevLevels>>
    /\ UNCHANGED <<evars, avars>>
    /\ UNCHANGED <<xvars, zvars>>

\* one link of links.forEach; adj[l.source] is undefined for a source that is not a
\* node, and the push on it throws a TypeError
LinkStep ==
    /\ lpc = "links"
    /\ li < Len(links)
    /\ LET l == links[li + 1]
       IN  /\ incomingCount' = Put(incomingCount, l.target,
                                   (IF Has(incomingCount, l.target)
                                    THEN incomingCount[l.target] ELSE 0) + 1)
           /\ IF Has(adj, l.source)
              THEN /\ adj' = [adj EXCEPT ![l.source] = Append(@, l.target)]
                   /\ li' = li + 1
                   /\ lpc' = lpc
              ELSE /\ lpc' = "threw"
                   /\ UNCHANGED <<adj, li>>
    /\ UNCHANGED <<data, nodes, links, queue, visited, levels, assigned, iterations,
                   runs, prevLevels>>
    /\ UNCHANGED <<evars, avars>>
    /\ UNCHANGED <<xvars, zvars>>

RECURSIVE Roots(_, _)
Roots(ns, ic) ==
    IF Len(ns) = 0 THEN <<>>
    ELSE (IF ic[Head(ns).id] = 0 THEN <<[id |-> Head(ns).id, depth |-> 0]>> ELSE <<>>)
         \o Roots(Tail(ns), ic)

\* SeedQueue with a visited set that outlives the run
SeedQueue_KeepsVisited ==
    /\ lpc = "links"
    /\ li = Len(links)
    /\ LET roots == Roots(nodes, incomingCount)
       IN  queue' = (IF Len(roots) = 0 /\ Len(nodes) > 0
                     THEN <<[id |-> nodes[1].id, depth |-> 0]>>
                     ELSE roots)
    /\ lpc' = "loop"
    /\ UNCHANGED <<data, nodes, links, li, incomingCount, adj, visited, levels, assigned,
                   iterations, runs, prevLevels>>
    /\ UNCHANGED <<evars, avars>>
    /\ UNCHANGED <<xvars, zvars>>

\* SeedQueue without the fallback for loops
SeedQueue_NoFallback ==
    /\ lpc = "links"
    /\ li = Len(links)
    /\ queue' = Roots(nodes, incomingCount)
    /\ visited' = {}
    /\ lpc' = "loop"
    /\ UNCHANGED <<data, nodes, links, li, incomingCount, adj, levels, assigned,
                   iterations, runs, prevLevels>>
    /\ UNCHANGED <<evars, avars>>
    /\ UNCHANGED <<xvars, zvars>>

\* SeedQueue that takes only the first of the zero in-degree nodes
SeedQueue_FirstRootOnly ==
    /\ lpc = "links"
    /\ li = Len(links)
    /\ LET roots == Roots(nodes, incomingCount)
       IN  queue' = (IF Len(nodes) > 0
                     THEN (IF Len(roots) = 0
                           THEN <<[id |-> nodes[1].id, depth |-> 0]>>
                           ELSE <<roots[1]>>)
                     ELSE roots)
    /\ visited' = {}
    /\ lpc' = "loop"
    /\ UNCHANGED <<data, nodes, links, li, incomingCount, adj, levels, assigned,
                   iterations, runs, prevLevels>>
    /\ UNCHANGED <<evars, avars>>
    /\ UNCHANGED <<xvars, zvars>>

\* the queue of the zero in-degree nodes, the fallback for loops, the new visited set
SeedQueue ==
    /\ lpc = "links"
    /\ li = Len(links)
    /\ LET roots == Roots(nodes, incomingCount)
       IN  queue' = (IF Len(roots) = 0 /\ Len(nodes) > 0
                     THEN <<[id |-> nodes[1].id, depth |-> 0]>>
                     ELSE roots)
    /\ visited' = {}
    /\ lpc' = "loop"
    /\ UNCHANGED <<data, nodes, links, li, incomingCount, adj, levels, assigned,
                   iterations, runs, prevLevels>>
    /\ UNCHANGED <<evars, avars>>
    /\ UNCHANGED <<xvars, zvars>>

\* LoopStep that takes the newest entry of the queue, not the oldest
LoopStep_Stack ==
    /\ lpc = "loop"
    /\ Len(queue) > 0
    /\ iterations' = iterations + 1
    /\ LET id == queue[Len(queue)].id
           depth == queue[Len(queue)].depth
           rest == SubSeq(queue, 1, Len(queue) - 1)
       IN  IF id \in visited
           THEN /\ queue' = rest
                /\ UNCHANGED <<visited, levels, assigned, lpc>>
           ELSE /\ visited' = visited \cup {id}
                /\ levels' = Put(levels, id, depth)
                /\ assigned' = Put(assigned, id, (IF Has(assigned, id) THEN assigned[id] ELSE 0) + 1)
                /\ IF Has(adj, id)
                   THEN /\ queue' = rest \o
                                    [k \in 1..Len(adj[id]) |->
                                        [id |-> adj[id][k], depth |-> depth + 1]]
                        /\ lpc' = lpc
                   ELSE /\ queue' = rest
                        /\ lpc' = "threw"
    /\ UNCHANGED <<data, nodes, links, li, incomingCount, adj, runs, prevLevels>>
    /\ UNCHANGED <<evars, avars>>
    /\ UNCHANGED <<xvars, zvars>>

\* LoopStep that writes the level before it looks at the visited set
LoopStep_RelabelsVisited ==
    /\ lpc = "loop"
    /\ Len(queue) > 0
    /\ iterations' = iterations + 1
    /\ LET id == Head(queue).id
           depth == Head(queue).depth
       IN  /\ levels' = Put(levels, id, depth)
           /\ IF id \in visited
              THEN /\ queue' = Tail(queue)
                   /\ UNCHANGED <<visited, assigned, lpc>>
              ELSE /\ visited' = visited \cup {id}
                   /\ assigned' = Put(assigned, id, (IF Has(assigned, id) THEN assigned[id] ELSE 0) + 1)
                   /\ IF Has(adj, id)
                      THEN /\ queue' = Tail(queue) \o
                                       [k \in 1..Len(adj[id]) |->
                                           [id |-> adj[id][k], depth |-> depth + 1]]
                           /\ lpc' = lpc
                      ELSE /\ queue' = Tail(queue)
                           /\ lpc' = "threw"
    /\ UNCHANGED <<data, nodes, links, li, incomingCount, adj, runs, prevLevels>>
    /\ UNCHANGED <<evars, avars>>
    /\ UNCHANGED <<xvars, zvars>>

\* one iteration of while (queue.length > 0); adj[id] is undefined for an id that is
\* not a node, and the forEach on it throws a TypeError
LoopStep ==
    /\ lpc = "loop"
    /\ Len(queue) > 0
    /\ iterations' = iterations + 1
    /\ LET id == Head(queue).id
           depth == Head(queue).depth
       IN  IF id \in visited
           THEN /\ queue' = Tail(queue)
                /\ UNCHANGED <<visited, levels, assigned, lpc>>
           ELSE /\ visited' = visited \cup {id}
                /\ levels' = Put(levels, id, depth)
                /\ assigned' = Put(assigned, id, (IF Has(assigned, id) THEN assigned[id] ELSE 0) + 1)
                /\ IF Has(adj, id)
                   THEN /\ queue' = Tail(queue) \o
                                    [k \in 1..Len(adj[id]) |->
                                        [id |-> adj[id][k], depth |-> depth + 1]]
                        /\ lpc' = lpc
                   ELSE /\ queue' = Tail(queue)
                        /\ lpc' = "threw"
    /\ UNCHANGED <<data, nodes, links, li, incomingCount, adj, runs, prevLevels>>
    /\ UNCHANGED <<evars, avars>>
    /\ UNCHANGED <<xvars, zvars>>

\* AssignLevels without the default of 0 for a node the loop never reached
AssignLevels_NoDefault ==
    /\ lpc = "loop"
    /\ Len(queue) = 0
    /\ nodes' = [k \in 1..Len(nodes) |->
                    [nodes[k] EXCEPT !.level =
                        IF Has(levels, nodes[k].id) THEN levels[nodes[k].id]
                        ELSE Len(nodes)]]
    /\ runs' = runs + 1
    /\ lpc' = "done"
    /\ UNCHANGED <<data, links, li, incomingCount, adj, queue, visited, levels, assigned,
                   iterations, prevLevels>>
    /\ UNCHANGED <<evars, avars>>
    /\ UNCHANGED <<xvars, zvars>>

\* after the loop: nodes.forEach(n => n.level = levels[n.id] || 0)
AssignLevels ==
    /\ lpc = "loop"
    /\ Len(queue) = 0
    /\ nodes' = [k \in 1..Len(nodes) |->
                    [nodes[k] EXCEPT !.level =
                        IF Has(levels, nodes[k].id) THEN levels[nodes[k].id] ELSE 0]]
    /\ runs' = runs + 1
    /\ lpc' = "done"
    /\ UNCHANGED <<data, links, li, incomingCount, adj, queue, visited, levels, assigned,
                   iterations, prevLevels>>
    /\ UNCHANGED <<evars, avars>>
    /\ UNCHANGED <<xvars, zvars>>

\* the dimensions change: the effect is cleaned up and runs again on the same data
RerunEffect ==
    /\ lpc = "done"
    /\ runs < MaxRuns
    /\ prevLevels' = levels
    /\ lpc' = "start"
    /\ UNCHANGED <<data, nodes, links, li, incomingCount, adj, queue, visited, levels,
                   assigned, iterations, runs>>
    /\ UNCHANGED <<evars, avars>>
    /\ UNCHANGED <<xvars, zvars>>

\* the graphs drawn: up to three nodes, with up to MaxEdges edges between them or up
\* to MaxDangling edges of which some have an end that is not a node, or with no
\* edges collection at all
NodeIdSeq == <<"n1", "n2", "n3">>
GhostId == "ghost"
NodeList(n) == [k \in 1..n |-> [id |-> NodeIdSeq[k], level |-> NoLevel]]
EdgeLists(n) ==
    LET ends == {NodeIdSeq[k] : k \in 1..n}
    IN  SeqsUpTo([from : ends, to : ends], MaxEdges)
        \cup SeqsUpTo([from : ends \cup {GhostId}, to : ends \cup {GhostId}], MaxDangling)
Graphs ==
    UNION {{[nodes |-> NodeList(n), edges |-> es, edgesMissing |-> FALSE] :
               es \in EdgeLists(n)} : n \in 0..Len(NodeIdSeq)}
    \cup {[nodes |-> NodeList(n), edges |-> <<>>, edgesMissing |-> TRUE] :
              n \in 0..Len(NodeIdSeq)}

\* ---------------------------------------------------------- specification
InitE(in) ==
    /\ input = in
    /\ text = TextOf(in)
    /\ epc = "idle"
    /\ cleanText = <<>>
    /\ startIndex = -1
    /\ braceCount = 0
    /\ inString = FALSE
    /\ escaped = FALSE
    /\ endIndex = -1
    /\ i = 0
    /\ ret = NoRet
    /\ attempts = <<>>

InitA ==
    /\ apc = "idle"
    /\ promise = NoPromise
    /\ loading = FALSE
    /\ result = NullResult
    /\ error = "none"
    /\ messages = <<>>
    /\ focusedStepIndex = NoIndex
    /\ user = NullUser

InitG(d, pc) ==
    /\ data = d
    /\ nodes = <<>>
    /\ links = <<>>
    /\ lpc = pc
    /\ li = 0
    /\ incomingCount = EmptyMap
    /\ adj = EmptyMap
    /\ queue = <<>>
    /\ visited = {}
    /\ levels = EmptyMap
    /\ assigned = EmptyMap
    /\ iterations = 0
    /\ runs = 0
    /\ prevLevels = EmptyMap

\* no node was clicked yet
NoNode == [hasId |-> FALSE, id |-> <<>>]

InitC == clicked = NoNode /\ selectedNode = NoNode

\* d3.zoomIdentity, and the box of one drawn node
Identity == [by |-> 0, kn |-> 1, kd |-> 1, xn |-> 0, yn |-> 0]
UnitBox == [x |-> 0, y |-> 0, width |-> 1, height |-> 1]

\* the drawn group is one node wide and the zoom is d3.zoomIdentity
InitF(b) == bbox = b /\ transform = Identity

\* the panels as useState([35, 30, 35]) makes them, no deck, nothing in flight
InitialWidths == <<35, 30, 35>>
InitP ==
    /\ analyzeUser = NullUser
    /\ graphViewMode = "reasoning"
    /\ currentIndex = 0
    /\ deckTimers = <<>>
    /\ asking = <<>>
    /\ widths = InitialWidths
    /\ isResizing = NoIndex
    /\ movement = 0
InitZ == InitF(UnitBox) /\ InitP

\* ConceptGraph is mounted, its first effect has not run
InitR ==
    /\ dimensions = [width |-> 1, height |-> 1]
    /\ pass = 0
    /\ svgMounted = TRUE
    /\ content = 0
    /\ live = 0
    /\ timers = {}
    /\ simRunning = {}
    /\ transitions = {}
    /\ cleaned = {}
    /\ staleActs = {}
    /\ pos = <<>>
    /\ gesture = <<>>

InitExtract ==
    /\ \E in \in Inputs : InitE(in)
    /\ InitA
    /\ InitG(NoData, "idle")
    /\ InitC
    /\ InitZ
    /\ InitR

NextExtract ==
    \/ HandleAnalyze
    \/ StrictParse
    \/ ParseCleaned
    \/ FindStart
    \/ ScanStep
    \/ ParseCandidate
    \/ RegexFallback
    \/ AnalyzeProblemSettle
    \/ HandleAnalyzeSettle

SpecExtract == InitExtract /\ [][NextExtract]_vars

InitLevel ==
    /\ InitE(NoInput)
    /\ InitA
    /\ \E d \in Graphs : InitG(d, "start")
    /\ InitC
    /\ InitZ
    /\ InitR

NextLevel ==
    \/ InitMaps
    \/ LinkStep
    \/ SeedQueue
    \/ LoopStep
    \/ AssignLevels
    \/ RerunEffect

SpecLevel == InitLevel /\ [][NextLevel]_vars

\* ------------------------------------------------ extractor to levelling
ReasoningGraph == <<"r", "e", "a", "s", "o", "n", "i", "n", "g", "_", "g", "r", "a", "p", "h">>
NodesKey == <<"n", "o", "d", "e", "s">>
EdgesKey == <<"e", "d", "g", "e", "s">>
IdKey == <<"i", "d">>
FromKey == <<"f", "r", "o", "m">>
ToKey == <<"t", "o">>

\* v.reasoning_graph has the arrays nodes and edges, of objects with string ids
HasGraph(v) ==
    /\ HasMember(v, ReasoningGraph)
    /\ LET g == Member(v, ReasoningGraph)
       IN  /\ HasMember(g, NodesKey) /\ Member(g, NodesKey)[1] = "arr"
           /\ HasMember(g, EdgesKey) /\ Member(g, EdgesKey)[1] = "arr"
           /\ \A n \in Range(Member(g, NodesKey)[2]) :
                  HasMember(n, IdKey) /\ Member(n, IdKey)[1] = "str"
           /\ \A e \in Range(Member(g, EdgesKey)[2]) :
                  /\ HasMember(e, FromKey) /\ Member(e, FromKey)[1] = "str"
                  /\ HasMember(e, ToKey) /\ Member(e, ToKey)[1] = "str"

GraphOf(v) ==
    LET g == Member(v, ReasoningGraph)
        ns == Member(g, NodesKey)[2]
        es == Member(g, EdgesKey)[2]
    IN  [nodes |-> [k \in 1..Len(ns) |-> [id |-> Member(ns[k], IdKey)[2], level |-> NoLevel]],
         edges |-> [k \in 1..Len(es) |-> [from |-> Member(es[k], FromKey)[2],
                                          to |-> Member(es[k], ToKey)[2]]],
         edgesMissing |-> FALSE]

\* the reasoning graph of the extracted payload becomes the data of ConceptGraph
MountGraph ==
    /\ epc = "returned"
    /\ ret.kind = "value"
    /\ lpc = "idle"
    /\ HasGraph(ret.val)
    /\ data' = GraphOf(ret.val)
    /\ lpc' = "start"
    /\ UNCHANGED <<nodes, links, li, incomingCount, adj, queue, visited, levels, assigned,
                   iterations, runs, prevLevels>>
    /\ UNCHANGED <<evars, avars>>
    /\ UNCHANGED <<xvars, zvars>>

\* the response of the end-to-end scenario: a preamble, then the fenced payload
E2EText ==
    <<"S", "u", "r", "e", "!", " ", BT, BT, BT, "j", "s", "o", "n", NL, "{", Q, "r", "e",
      "a", "s", "o", "n", "i", "n", "g", "_", "g", "r", "a", "p", "h", Q, ":", "{", Q,
      "n", "o", "d", "e", "s", Q, ":", "[", "{", Q, "i", "d", Q, ":", Q, "a", Q, "}",
      ",", "{", Q, "i", "d", Q, ":", Q, "b", Q, "}", "]", ",", Q, "e", "d", "g", "e",
      "s", Q, ":", "[", "{", Q, "f", "r", "o", "m", Q, ":", Q, "a", Q, ",", Q, "t", "o",
      Q, ":", Q, "b", Q, "}", "]", ",", Q, "m", "a", "i", "n", "_", "p", "a", "t", "h",
      Q, ":", "[", Q, "a", Q, ",", Q, "b", Q, "]", "}", "}", NL, BT, BT, BT>>

InitE2E ==
    /\ InitE([NoInput EXCEPT !.doc = E2EText])
    /\ InitA
    /\ InitG(NoData, "idle")
    /\ InitC
    /\ InitZ
    /\ InitR

\* extractJson called on the response, as analyzeProblem does
CallExtract ==
    /\ epc = "idle"
    /\ apc = "idle"
    /\ input.doc = E2EText
    /\ epc' = "strict"
    /\ UNCHANGED <<input, text, cleanText, startIndex, braceCount, inString, escaped,
                   endIndex, i, ret, attempts>>
    /\ UNCHANGED <<avars, gvars>>
    /\ UNCHANGED <<xvars, zvars>>

NextE2E ==
    \/ CallExtract
    \/ StrictParse
    \/ ParseCleaned
    \/ FindStart
    \/ ScanStep
    \/ ParseCandidate
    \/ MountGraph
    \/ InitMaps
    \/ LinkStep
    \/ SeedQueue
    \/ LoopStep
    \/ AssignLevels
    \/ RerunEffect

SpecE2E == InitE2E /\ [][NextE2E]_vars

\* ------------------------------ ConceptGraph: render passes and dragging
\* fx, fy of a node that is not pinned (null or undefined)
NoCoord == -1
Coords == 0..MaxCoord
Sizes == {[width |-> 0, height |-> 0], [width |-> 1, height |-> 1]}
NoGesture == [active |-> FALSE, x |-> NoCoord, y |-> NoCoord]

\* the drag gestures in progress on nodes other than k (event.active)
OtherActive(k) == {j \in 1..Len(gesture) : j # k /\ gesture[j].active}

\* the cleanup function of the pass React holds: simulation.stop()
CleanedAfter == IF live # 0 THEN cleaned \cup {live} ELSE cleaned
RunningAfterCleanup == IF live # 0 THEN simRunning \ {live} ELSE simRunning

\* the ResizeObserver callback sets dimensions: the cleanup of the last pass runs and
\* the effect runs again; it returns at once when a dimension is 0, otherwise it
\* empties the SVG, builds the elements, starts the simulation and the 500 ms timer
Resize ==
    /\ svgMounted
    /\ pass < MaxPasses
    /\ \E d \in Sizes :
        /\ dimensions' = d
        /\ pass' = pass + 1
        /\ cleaned' = CleanedAfter
        /\ IF d.width = 0 \/ d.height = 0
           THEN /\ live' = 0
                /\ simRunning' = RunningAfterCleanup
                /\ UNCHANGED <<content, timers, pos, gesture>>
           ELSE /\ live' = pass'
                /\ content' = pass'
                /\ simRunning' = RunningAfterCleanup \cup {pass'}
                /\ timers' = timers \cup {pass'}
                /\ \E xs \in [1..Len(data.nodes) -> Coords] :
                       pos' = [k \in 1..Len(data.nodes) |->
                                  [x |-> xs[k], y |-> 0, fx |-> NoCoord, fy |-> NoCoord]]
                /\ gesture' = [k \in 1..Len(data.nodes) |-> NoGesture]
    /\ UNCHANGED <<svgMounted, transitions, staleActs>>
    /\ UNCHANGED <<evars, avars, gvars, cvars, zvars>>

\* ConceptGraph is unmounted: the cleanup runs, the SVG goes and svgRef.current is null
Unmount ==
    /\ svgMounted
    /\ pass > 0
    /\ svgMounted' = FALSE
    /\ cleaned' = CleanedAfter
    /\ simRunning' = RunningAfterCleanup
    /\ live' = 0
    /\ content' = 0
    /\ transitions' = {}
    /\ pos' = <<>>
    /\ gesture' = <<>>
    /\ UNCHANGED <<dimensions, pass, timers, staleActs>>
    /\ UNCHANGED <<evars, avars, gvars, cvars, zvars>>

\* what a callback of pass p does to the SVG is noted when p was cleaned up before
Noted(p, kind) ==
    IF p \in cleaned THEN staleActs \cup {[pass |-> p, kind |-> kind]} ELSE staleActs

\* a tick of the simulation of pass p: a pinned node sits at (fx, fy), the forces
\* bring the others to their place in the layout; the tick listener writes the
\* positions to the elements of pass p
Tick ==
    \E p \in simRunning :
        /\ IF svgMounted /\ content = p
           THEN /\ pos' = [k \in 1..Len(pos) |->
                              IF pos[k].fx # NoCoord
                              THEN [pos[k] EXCEPT !.x = pos[k].fx, !.y = pos[k].fy]
                              ELSE [pos[k] EXCEPT !.x = 0, !.y = 0]]
                /\ staleActs' = Noted(p, "tick")
           ELSE UNCHANGED <<pos, staleActs>>
        /\ UNCHANGED <<dimensions, pass, svgMounted, content, live, timers, simRunning,
                       transitions, cleaned, gesture>>
        /\ UNCHANGED <<evars, avars, gvars, cvars, zvars>>

\* the simulation of pass p has cooled down (no drag holds its alphaTarget up): its
\* timer stops
SimulationEnds ==
    \E p \in simRunning :
        /\ ~(content = p /\ \E k \in 1..Len(gesture) : gesture[k].active)
        /\ simRunning' = simRunning \ {p}
        /\ UNCHANGED <<dimensions, pass, svgMounted, content, live, timers, transitions,
                       cleaned, staleActs, pos, gesture>>
        /\ UNCHANGED <<evars, avars, gvars, cvars, zvars>>

\* the zoom-fit arithmetic, in exact fractions: a transform is the scale kn / kd and
\* the translation (xn, yn) / (2 * kd); by is the pass whose timer asked for it
padding == 60

\* 0.95 / Math.max(bWidth / width, bHeight / height)
Scale(b, width, height) ==
    LET bWidth == b.width + padding * 2
        bHeight == b.height + padding * 2
    IN  IF bWidth * height >= bHeight * width
        THEN [n |-> 95 * width, d |-> 100 * bWidth]
        ELSE [n |-> 95 * height, d |-> 100 * bHeight]

\* Math.max(0.4, Math.min(2, scale))
ClampedScale(scale) ==
    IF scale.n > 2 * scale.d THEN [n |-> 2, d |-> 1]
    ELSE IF 10 * scale.n < 4 * scale.d THEN [n |-> 4, d |-> 10]
    ELSE scale

\* d3.zoomIdentity.translate(width / 2 - k * midX, height / 2 - k * midY).scale(k)
FitTransform(p, b, width, height) ==
    LET k == ClampedScale(Scale(b, width, height))
    IN  [by |-> p, kn |-> k.n, kd |-> k.d,
         xn |-> width * k.d - k.n * (2 * b.x + b.width),
         yn |-> height * k.d - k.n * (2 * b.y + b.height)]

\* the 500 ms timeout of pass p fires: without svgRef.current it returns; with the
\* elements of pass p in the SVG (a bounding box of width > 0) it starts the zoom-fit
\* transition on the SVG, which takes the place of a transition running there
ZoomFit ==
    \E p \in timers :
        /\ timers' = timers \ {p}
        /\ IF svgMounted /\ content = p /\ Len(pos) > 0 /\ bbox.width > 0
           THEN /\ transitions' = {p}
                /\ transform' = FitTransform(p, bbox, dimensions.width, dimensions.height)
                /\ staleActs' = Noted(p, "zoom-fit")
           ELSE UNCHANGED <<transitions, transform, staleActs>>
        /\ UNCHANGED <<dimensions, pass, svgMounted, content, live, simRunning, cleaned,
                       pos, gesture, bbox>>
        /\ UNCHANGED <<evars, avars, gvars, cvars, pvars>>

\* a frame of the zoom-fit transition pass p started: it sets the zoom transform of
\* the SVG; the last frame ends the transition
TransitionFrame ==
    \E p \in transitions :
        /\ svgMounted
        /\ staleActs' = Noted(p, "zoom-frame")
        /\ \E last \in BOOLEAN :
               transitions' = IF last THEN transitions \ {p} ELSE transitions
        /\ UNCHANGED <<dimensions, pass, svgMounted, content, live, timers, simRunning,
                       cleaned, pos, gesture>>
        /\ UNCHANGED <<evars, avars, gvars, cvars, zvars>>

\* dragstarted on node k: the simulation of its pass is restarted unless another
\* drag is active, and the node is pinned where it is
DragStarted ==
    \E k \in 1..Len(pos) :
        /\ svgMounted
        /\ content # 0
        /\ ~gesture[k].active
        /\ simRunning' = IF OtherActive(k) = {} THEN simRunning \cup {content}
                         ELSE simRunning
        /\ pos' = [pos EXCEPT ![k].fx = pos[k].x, ![k].fy = pos[k].y]
        /\ gesture' = [gesture EXCEPT ![k] = [active |-> TRUE, x |-> pos[k].x,
                                              y |-> pos[k].y]]
        /\ UNCHANGED <<dimensions, pass, svgMounted, content, live, timers, transitions,
                       cleaned, staleActs>>
        /\ UNCHANGED <<evars, avars, gvars, cvars, zvars>>

\* Dragged writing fx and leaving fy as it is
Dragged_ForgetsFy ==
    \E k \in 1..Len(pos), px \in Coords, py \in Coords :
        /\ gesture[k].active
        /\ pos' = [pos EXCEPT ![k].fx = px]
        /\ gesture' = [gesture EXCEPT ![k] = [active |-> TRUE, x |-> px, y |-> py]]
        /\ UNCHANGED <<dimensions, pass, svgMounted, content, live, timers, simRunning,
                       transitions, cleaned, staleActs>>
        /\ UNCHANGED <<evars, avars, gvars, cvars, zvars>>

\* dragged on node k with the pointer at (px, py): the node is pinned there
Dragged ==
    \E k \in 1..Len(pos), px \in Coords, py \in Coords :
        /\ gesture[k].active
        /\ pos' = [pos EXCEPT ![k].fx = px, ![k].fy = py]
        /\ gesture' = [gesture EXCEPT ![k] = [active |-> TRUE, x |-> px, y |-> py]]
        /\ UNCHANGED <<dimensions, pass, svgMounted, content, live, timers, simRunning,
                       transitions, cleaned, staleActs>>
        /\ UNCHANGED <<evars, avars, gvars, cvars, zvars>>

\* dragended on node k: fx and fy are null again (alphaTarget goes back to 0, which
\* lets the simulation cool down)
DragEnded ==
    \E k \in 1..Len(pos) :
        /\ gesture[k].active
        /\ pos' = [pos EXCEPT ![k].fx = NoCoord, ![k].fy = NoCoord]
        /\ gesture' = [gesture EXCEPT ![k] = NoGesture]
        /\ UNCHANGED <<dimensions, pass, svgMounted, content, live, timers, simRunning,
                       transitions, cleaned, staleActs>>
        /\ UNCHANGED <<evars, avars, gvars, cvars, zvars>>

\* the graph of the passes: one node for the passes that replace each other, two
\* nodes for the drags
GraphOfSize(n) == [nodes |-> NodeList(n), edges |-> <<>>, edgesMissing |-> FALSE]

\* ConceptGraph was mounted and its container not yet measured: the first run of the
\* effect returned at once
InitRender ==
    /\ InitE(NoInput)
    /\ InitA
    /\ InitG(GraphOfSize(1), "idle")
    /\ InitC
    /\ InitZ
    /\ dimensions = [width |-> 0, height |-> 0]
    /\ pass = 0
    /\ svgMounted = TRUE
    /\ content = 0
    /\ live = 0
    /\ timers = {}
    /\ simRunning = {}
    /\ transitions = {}
    /\ cleaned = {}
    /\ staleActs = {}
    /\ pos = <<>>
    /\ gesture = <<>>

NextRender ==
    \/ Resize
    \/ Unmount
    \/ Tick
    \/ SimulationEnds
    \/ ZoomFit
    \/ TransitionFrame
    \/ DragStarted
    \/ Dragged
    \/ DragEnded

SpecRender == InitRender /\ [][NextRender]_vars

\* a graph of two nodes after its first pass: the elements are in the SVG, the
\* simulation runs and the zoom-fit timer is pending
InitDrag ==
    /\ InitE(NoInput)
    /\ InitA
    /\ InitG(GraphOfSize(2), "idle")
    /\ InitC
    /\ InitZ
    /\ dimensions = [width |-> 1, height |-> 1]
    /\ pass = 1
    /\ svgMounted = TRUE
    /\ content = 1
    /\ live = 1
    /\ timers = {1}
    /\ simRunning = {1}
    /\ transitions = {}
    /\ cleaned = {}
    /\ staleActs = {}
    /\ \E xs \in [1..2 -> Coords] :
           pos = [k \in 1..2 |-> [x |-> xs[k], y |-> 0, fx |-> NoCoord, fy |-> NoCoord]]
    /\ gesture = [k \in 1..2 |-> NoGesture]

NextDrag ==
    \/ Tick
    \/ SimulationEnds
    \/ ZoomFit
    \/ TransitionFrame
    \/ DragStarted
    \/ Dragged
    \/ DragEnded

SpecDrag == InitDrag /\ [][NextDrag]_vars

\* the sizes of drawn groups and of containers, and where the group lies
SizeStep == padding * 5
Boxes ==
    [x : {0 - SizeStep, 0}, y : {0 - SizeStep, 0},
     width : {k * SizeStep : k \in 0..MaxSize}, height : {k * SizeStep : k \in 0..MaxSize}]
Views == [width : {k * SizeStep : k \in 1..MaxSize}, height : {k * SizeStep : k \in 1..MaxSize}]

\* a graph of one node after its first pass in a container of some size: the
\* elements are in the SVG, the simulation runs and the zoom-fit timer is pending
InitFit ==
    /\ InitE(NoInput)
    /\ InitA
    /\ InitG(GraphOfSize(1), "idle")
    /\ clicked = NoNode /\ selectedNode = NoNode
    /\ \E b \in Boxes : InitF(b)
    /\ InitP
    /\ dimensions \in Views
    /\ pass = 1
    /\ svgMounted = TRUE
    /\ content = 1
    /\ live = 1
    /\ timers = {1}
    /\ simRunning = {1}
    /\ transitions = {}
    /\ cleaned = {}
    /\ staleActs = {}
    /\ \E x0 \in Coords : pos = <<[x |-> x0, y |-> 0, fx |-> NoCoord, fy |-> NoCoord]>>
    /\ gesture = <<NoGesture>>

NextFit ==
    \/ Tick
    \/ SimulationEnds
    \/ ZoomFit
    \/ TransitionFrame
    \/ Unmount

SpecFit == InitFit /\ [][NextFit]_vars

\* ------------------------------------------------- the step correlation
StepIdKey == <<"s", "t", "e", "p", "_", "i", "d">>

\* parseInt(digits, 10)
RECURSIVE ParseInt(_)
ParseInt(ds) ==
    IF ds = <<>> THEN 0
    ELSE 10 * ParseInt(SubSeq(ds, 1, Len(ds) - 1))
         + (CHOOSE d \in 0..9 : <<"0", "1", "2", "3", "4", "5", "6", "7", "8", "9">>[d + 1]
                                    = ds[Len(ds)])

\* str.match(/\d+/): the first run of digits, as a number; -1 without a digit
getNum(str) ==
    LET ds == {q \in 1..Len(str) : IsDigit(str[q])}
    IN  IF ds = {} THEN -1
        ELSE ParseInt(SubSeq(str, Min(ds), DigitsEnd(str, Min(ds)) - 1))

\* array.findIndex over positions 1..n: the 0-based index of the first hit, else -1
FindIndex(n, P(_)) ==
    LET hits == {k \in 1..n : P(k)}
    IN  IF hits = {} THEN -1 ELSE Min(hits) - 1

\* result?.parsedData?.student_analysis is there
HasSteps(r) ==
    /\ ~r.isNull
    /\ r.parsedData.kind = "value"
    /\ HasMember(r.parsedData.val, StudentAnalysis)

\* the step_id of every entry of result.parsedData.student_analysis
StepIds(r) ==
    LET sa == Member(r.parsedData.val, StudentAnalysis)[2]
    IN  [k \in 1..Len(sa) |-> Member(sa[k], StepIdKey)[2]]

\* ResolveStep using the number of the node id as a position without comparing it
\* with the length of the step list
ResolveStep_NoUpperBound(steps, id) ==
    LET nodeIdNum == getNum(id)
        byNum == FindIndex(Len(steps), LAMBDA k : getNum(steps[k]) = nodeIdNum)
        byId == IF byNum = -1 THEN FindIndex(Len(steps), LAMBDA k : steps[k] = id)
                ELSE byNum
    IN  IF byId = -1 /\ nodeIdNum > 0 THEN nodeIdNum - 1
        ELSE byId

\* the index handleGraphNodeClick computes for the node id (-1: none)
ResolveStep(steps, id) ==
    LET nodeIdNum == getNum(id)
        byNum == FindIndex(Len(steps), LAMBDA k : getNum(steps[k]) = nodeIdNum)
        byId == IF byNum = -1 THEN FindIndex(Len(steps), LAMBDA k : steps[k] = id)
                ELSE byNum
    IN  IF byId = -1 /\ nodeIdNum > 0 /\ nodeIdNum <= Len(steps) THEN nodeIdNum - 1
        ELSE byId

\* handleGraphNodeClick(node), with `index` the index computed for node.id
SetFocus(node, index) ==
    /\ clicked' = node
    /\ IF ~node.hasId \/ node.id = <<>>
       THEN focusedStepIndex' = NoIndex
       ELSE IF HasSteps(result)
            THEN focusedStepIndex' = (IF index # -1 THEN index ELSE NoIndex)
            ELSE focusedStepIndex' = NoIndex
    /\ UNCHANGED <<apc, promise, loading, result, error, messages, user>>
    /\ UNCHANGED <<evars, gvars, rvars, zvars>>

HandleGraphNodeClick(node) ==
    SetFocus(node, IF HasSteps(result) THEN ResolveStep(StepIds(result), node.id) ELSE -1)

\* the identifiers of steps and of graph nodes
IdPool == {<<"s", "1">>, <<"1">>, <<"s", "2">>, <<"2">>, <<"x">>, <<"y">>, <<"5">>,
           <<"0", "1">>}

\* the results dashboard is drawn with ConceptGraph in its middle panel
DashboardDrawn == ~result.isNull /\ result.parsedData.kind = "value" /\ ~Falsy(result.parsedData.val)
GraphDrawn == DashboardDrawn /\ graphViewMode = "reasoning"

\* a click on a node of the graph: the node is selected and handed to onNodeSelect
NodeClick ==
    \E id \in IdPool \cup {<<>>} :
        LET d == [hasId |-> TRUE, id |-> id]
        IN  /\ GraphDrawn
            /\ selectedNode' = d
            /\ HandleGraphNodeClick(d)

\* a click on the background: the selection is dropped and onNodeSelect gets {}
BackgroundClick ==
    /\ GraphDrawn
    /\ selectedNode' = NoNode
    /\ HandleGraphNodeClick(NoNode)

\* a result whose student_analysis has the steps with these ids
ResultOf(ids) ==
    [isNull |-> FALSE,
     parsedData |->
        [kind |-> "value",
         val |-> <<"obj", << <<StudentAnalysis,
                    <<"arr", [k \in 1..Len(ids) |->
                                <<"obj", << <<StepIdKey, <<"str", ids[k]>>>> >>>>]>>>> >>>>],
     rawText |-> <<>>]

\* a result whose payload has no student_analysis
ResultWithoutSteps ==
    [isNull |-> FALSE, parsedData |-> [kind |-> "value", val |-> <<"obj", <<>>>>],
     rawText |-> <<>>]

Results == {ResultOf(ids) : ids \in SeqsUpTo(IdPool, MaxSteps)} \cup {ResultWithoutSteps}

InitClick ==
    /\ InitE(NoInput)
    /\ apc = "done"
    /\ promise = NoPromise
    /\ loading = FALSE
    /\ result \in Results
    /\ error = "none"
    /\ messages = <<>>
    /\ focusedStepIndex = NoIndex
    /\ user = NullUser
    /\ InitG(NoData, "idle")
    /\ InitC
    /\ InitZ
    /\ InitR

NextClick ==
    \/ NodeClick
    \/ BackgroundClick

SpecClick == InitClick /\ [][NextClick]_vars

\* ==================================================================== claims
\* a measure that bounds how many steps of extractJson are left
Running == epc \in {"strict", "clean", "find", "scan", "regex"}
StagesLeft ==
    CASE epc = "strict" -> 5
      [] epc = "clean" -> 4
      [] epc = "find" -> 3
      [] epc = "scan" -> 2
      [] epc = "regex" -> 1
      [] OTHER -> 0
Measure ==
    StagesLeft * (Len(text) + 2)
    + (IF epc = "scan" THEN (Len(cleanText) - i) + (IF endIndex = -1 THEN 1 ELSE 0) ELSE 0)

\* what JSON.parse gives on the text each stage hands to it
NoParse == [ok |-> FALSE, val |-> <<>>]
StageResult(stage) ==
    CASE stage = "strict" -> JSONparse(text)
      [] stage = "cleaned" -> JSONparse(StripFences(text))
      [] stage = "scan" ->
            IF startIndex # -1 /\ endIndex # -1
            THEN JSONparse(Substring(StripFences(text), startIndex, endIndex + 1))
            ELSE NoParse
      [] stage = "regex" ->
            IF RegexMatch(StripFences(text)).ok
            THEN JSONparse(RegexMatch(StripFences(text)).val)
            ELSE NoParse
Stages == <<"strict", "cleaned", "scan", "regex">>
Rank(stage) == CHOOSE k \in 1..4 : Stages[k] = stage
EveryStageFails == \A k \in 1..4 : ~StageResult(Stages[k]).ok

\* C1: extractJson never lets an exception escape; every step it takes brings it
\* nearer to its return, so it terminates; it returns a parsed value or null, and
\* null when every stage fails
ExtractJsonSafe ==
    /\ ret.kind \in {"none", "null", "value"}
    /\ epc # "threw"
    /\ Measure >= 0
    /\ epc = "returned" => ret.kind \in {"null", "value"}
    /\ (epc = "returned" /\ EveryStageFails) => ret.kind = "null"
C1_ExtractJsonTotal ==
    /\ []ExtractJsonSafe
    /\ [][Running => Measure' < Measure]_vars
C1_Witness ==
    /\ epc = "returned"
    /\ ret.kind = "null"
    /\ attempts = <<"strict", "cleaned", "scan", "regex">>

\* C2, for an object whose surrounding prose has neither braces nor quotes (so that
\* the embedded document is the only reading of the text): extractJson returns the
\* value that parsing the embedded document directly gives
PlainProse(chars) == \A k \in 1..Len(chars) : chars[k] \notin {"{", "}", Q}
C2_ExtractsEmbeddedJson ==
    (/\ epc = "returned"
     /\ PlainProse(input.pre) /\ PlainProse(input.post)
     /\ JSONparse(input.doc).val[1] = "obj")
        => ret = [kind |-> "value", val |-> JSONparse(input.doc).val]

\* where the payload begins and ends in cleanText (0-based)
DocStart == Len(StripFences(input.pre \o input.open \o <<"{">>)) - 1
TrueEnd == DocStart + Len(StripFences(input.doc)) - 1
HasBrace(chars) == \E k \in 1..Len(chars) : chars[k] \in {"{", "}"}
RECURSIVE BraceInStringValue(_)
BraceInStringValue(v) ==
    /\ v[1] = "obj"
    /\ \E k \in 1..Len(v[2]) :
          \/ v[2][k][2][1] = "str" /\ HasBrace(v[2][k][2][2])
          \/ BraceInStringValue(v[2][k][2])
ObjectWithBraceInString == BraceInStringValue(JSONparse(input.doc).val)
ScanRan == startIndex # -1
ScanOver == ScanRan /\ (epc # "scan" \/ endIndex # -1 \/ i >= Len(cleanText))
ScanIsExact ==
    /\ ScanRan => i <= TrueEnd /\ endIndex \in {-1, TrueEnd}
    /\ ScanOver => endIndex = TrueEnd

C4_StagesInOrder ==
    /\ \A j \in 1..Len(attempts) : \A k \in 1..Len(attempts) :
          j < k => Rank(attempts[j]) < Rank(attempts[k])
    /\ \A j \in 1..Len(attempts) : \A k \in 1..4 :
          k < Rank(attempts[j]) => ~StageResult(Stages[k]).ok
    /\ epc = "returned" =>
          IF EveryStageFails THEN ret.kind = "null"
          ELSE LET first == CHOOSE k \in 1..4 :
                                /\ StageResult(Stages[k]).ok
                                /\ \A j \in 1..(k - 1) : ~StageResult(Stages[j]).ok
               IN  /\ ret = [kind |-> "value", val |-> StageResult(Stages[first]).val]
                   /\ attempts[Len(attempts)] = Stages[first]
C4_Witness ==
    /\ epc = "returned"
    /\ ret.kind = "value"
    /\ attempts = <<"strict", "cleaned", "scan">>

\* C5: when every stage fails, analyzeProblem gives its caller a null parsedData and no
\* exception, and the application shows the failed analysis with the raw response
C5_AnalysisFailedState ==
    (apc = "done" /\ ret.kind = "null") =>
        /\ promise.state = "fulfilled"
        /\ ~result.isNull
        /\ result.parsedData.kind = "null"
        /\ result.rawText = text

\* ------------------------------------------- App: results, chat and panels
FlashcardsKey == <<"f", "l", "a", "s", "h", "c", "a", "r", "d", "s">>
StepDigits == <<"1", "2", "3", "4", "5", "6", "7", "8", "9">>

\* an analysis result called tag, with nSteps steps, a chat_response and nCards cards
AppResult(tag, nSteps, nCards) ==
    [isNull |-> FALSE,
     parsedData |->
        [kind |-> "value",
         val |-> <<"obj",
                   << <<StudentAnalysis,
                        <<"arr", [k \in 1..nSteps |->
                                    <<"obj", << <<StepIdKey, <<"str", <<StepDigits[k]>> >> >> >> >>] >> >>,
                      <<ChatResponse, <<"obj", <<>> >> >>,
                      <<FlashcardsKey, <<"arr", [k \in 1..nCards |-> <<"obj", <<>> >>] >> >> >> >>],
     rawText |-> <<tag>>]

\* result.parsedData.flashcards || []
Cards(r) ==
    IF HasMember(r.parsedData.val, FlashcardsKey)
    THEN Member(r.parsedData.val, FlashcardsKey)[2] ELSE <<>>

\* two results of earlier sessions and the one a new analysis gives
LongResult == AppResult("L", MaxSteps, MaxCards)
ShortResult == AppResult("S", 1, 1)
NewResult == AppResult("N", 1, 1)

\* a user who is logged in, with both earlier results in the history and in the
\* revision list
StoredUser ==
    [isNull |-> FALSE, history |-> <<LongResult, ShortResult>>,
     revisionList |-> <<LongResult, ShortResult>>, xp |-> 100, level |-> 2]

\* analyzeProblem settles: it resolves with a new result or rejects
AnalysisArrives ==
    /\ apc = "awaiting"
    /\ \/ promise' = [state |-> "fulfilled", data |-> NewResult, message |-> "none"]
       \/ promise' = [state |-> "rejected", data |-> NullResult,
                      message |-> "Failed to parse analysis response."]
    /\ apc' = "settled"
    /\ UNCHANGED <<evars, gvars, xvars, zvars>>
    /\ UNCHANGED <<loading, result, error, messages, focusedStepIndex, user>>

\* handleHistoryClick(item): the result, no focused step, the opening messages
HandleHistoryClick(item) ==
    /\ result' = item
    /\ focusedStepIndex' = NoIndex
    /\ messages' = (IF item.parsedData.kind = "value" /\ ~Falsy(item.parsedData.val)
                    THEN InitialMessages("hist", item) ELSE messages)
    /\ UNCHANGED <<apc, promise, loading, error, user>>
    /\ UNCHANGED <<evars, gvars, xvars, zvars>>

\* a click on an entry of Your History, on the upload dashboard
HistoryClick ==
    /\ ~user.isNull
    /\ result.isNull /\ ~loading
    /\ \E k \in 1..Len(user.history) : HandleHistoryClick(user.history[k])

\* a click on an entry of the Revision Bank, which the navbar opens at any time
RevisionClick ==
    /\ ~user.isNull
    /\ \E k \in 1..Len(user.revisionList) : HandleHistoryClick(user.revisionList[k])

\* what handleReset sets; without a result the dashboard, and the deck in it, go
ResetState ==
    /\ result' = NullResult
    /\ error' = "none"
    /\ messages' = <<>>
    /\ widths' = InitialWidths
    /\ focusedStepIndex' = NoIndex
    /\ graphViewMode' = "reasoning"
    /\ currentIndex' = 0
    /\ deckTimers' = <<>>
    /\ UNCHANGED <<apc, promise, loading>>
    /\ UNCHANGED <<analyzeUser, asking, isResizing, movement>>
    /\ UNCHANGED <<evars, gvars, xvars, fvars>>

\* handleReset: the logo or Solve Another
HandleReset == ResetState /\ user' = user

\* handleLogout: handleReset(), setUser(null)
HandleLogout ==
    /\ ~user.isNull
    /\ ResetState
    /\ user' = NullUser

\* handleSendMessage(text) up to the await: the question joins the list and
\* askFollowUpQuestion is called with the parsedData of the result of this render
HandleSendMessage ==
    /\ DashboardDrawn
    /\ Len(asking) < MaxAsks
    /\ Len(messages) < MaxChat
    /\ messages' = Append(messages, [id |-> <<"sent", Len(messages)>>, role |-> "user",
                                     of |-> result.rawText])
    /\ asking' = Append(asking, [of |-> result.rawText])
    /\ UNCHANGED <<apc, promise, loading, result, error, focusedStepIndex, user>>
    /\ UNCHANGED <<analyzeUser, graphViewMode, currentIndex, deckTimers, widths, isResizing,
                   movement>>
    /\ UNCHANGED <<evars, gvars, xvars, fvars>>

\* askFollowUpQuestion settles: the answer joins the list, or the error is logged
AnswerArrives ==
    \E k \in 1..Len(asking), resolved \in BOOLEAN :
        /\ asking' = SubSeq(asking, 1, k - 1) \o SubSeq(asking, k + 1, Len(asking))
        /\ messages' = (IF resolved
                        THEN Append(messages, [id |-> <<"answer", Len(messages)>>,
                                               role |-> "assistant", of |-> asking[k].of])
                        ELSE messages)
        /\ UNCHANGED <<apc, promise, loading, result, error, focusedStepIndex, user>>
        /\ UNCHANGED <<analyzeUser, graphViewMode, currentIndex, deckTimers, widths,
                       isResizing, movement>>
        /\ UNCHANGED <<evars, gvars, xvars, fvars>>

\* the upload dashboard of a user who is logged in
InitApp ==
    /\ InitE(NoInput)
    /\ apc = "idle"
    /\ promise = NoPromise
    /\ loading = FALSE
    /\ result = NullResult
    /\ error = "none"
    /\ messages = <<>>
    /\ focusedStepIndex = NoIndex
    /\ user = StoredUser
    /\ InitG(NoData, "idle")
    /\ InitC
    /\ InitZ
    /\ InitR

NextApp ==
    \/ HandleAnalyze
    \/ AnalysisArrives
    \/ HandleAnalyzeSettle
    \/ HistoryClick
    \/ RevisionClick
    \/ HandleReset
    \/ HandleLogout
    \/ NodeClick
    \/ BackgroundClick
    \/ HandleSendMessage
    \/ AnswerArrives

SpecApp == InitApp /\ [][NextApp]_vars

\* ------------------------------------------------------ the flashcard deck
\* FlashcardDeck is in the tree
DeckMounted == DashboardDrawn /\ graphViewMode = "flashcards"

\* the Cards button: FlashcardDeck takes the place of ConceptGraph, with new state
ShowFlashcards ==
    /\ DashboardDrawn
    /\ graphViewMode = "reasoning"
    /\ graphViewMode' = "flashcards"
    /\ currentIndex' = 0
    /\ deckTimers' = <<>>
    /\ UNCHANGED <<analyzeUser, asking, widths, isResizing, movement>>
    /\ UNCHANGED <<evars, avars, gvars, xvars, fvars>>

\* the Reasoning button: the deck leaves the tree and its state is lost
ShowReasoning ==
    /\ DashboardDrawn
    /\ graphViewMode = "flashcards"
    /\ graphViewMode' = "reasoning"
    /\ currentIndex' = 0
    /\ deckTimers' = <<>>
    /\ UNCHANGED <<analyzeUser, asking, widths, isResizing, movement>>
    /\ UNCHANGED <<evars, avars, gvars, xvars, fvars>>

\* handleNext (step 1) or handlePrev (step -1): a 300 ms timeout whose callback
\* holds the cards.length of this render
Press(step) ==
    /\ DeckMounted
    /\ Len(Cards(result)) > 0
    /\ Len(deckTimers) < MaxTimers
    /\ deckTimers' = Append(deckTimers, [step |-> step, length |-> Len(Cards(result))])
    /\ UNCHANGED <<analyzeUser, graphViewMode, currentIndex, asking, widths, isResizing,
                   movement>>
    /\ UNCHANGED <<evars, avars, gvars, xvars, fvars>>
HandleNext == Press(1)
HandlePrev == Press(-1)

\* the oldest timeout fires: setCurrentIndex(prev => (prev + 1) % cards.length), or
\* (prev - 1 + cards.length) % cards.length
DeckTimeout ==
    /\ Len(deckTimers) > 0
    /\ LET t == Head(deckTimers)
       IN  currentIndex' = (IF t.step = 1 THEN (currentIndex + 1) % t.length
                            ELSE (currentIndex - 1 + t.length) % t.length)
    /\ deckTimers' = Tail(deckTimers)
    /\ UNCHANGED <<analyzeUser, graphViewMode, asking, widths, isResizing, movement>>
    /\ UNCHANGED <<evars, avars, gvars, xvars, fvars>>

NextDeck ==
    \/ HistoryClick
    \/ RevisionClick
    \/ HandleReset
    \/ ShowFlashcards
    \/ ShowReasoning
    \/ HandleNext
    \/ HandlePrev
    \/ DeckTimeout

SpecDeck == InitApp /\ [][NextDeck]_vars

\* ----------------------------------------------------- the panel dividers
\* deltaPercentage of a mousemove event, in whole percents
Deltas == (0 - MaxDelta)..MaxDelta

\* startResize(index) on the mousedown of divider 0 or 1
StartResize ==
    /\ DashboardDrawn
    /\ \E index \in {0, 1} : isResizing' = index
    /\ UNCHANGED <<analyzeUser, graphViewMode, currentIndex, deckTimers, asking, widths,
                   movement>>
    /\ UNCHANGED <<evars, avars, gvars, xvars, fvars>>

\* HandleMouseMove that looks at the panel before the divider only
HandleMouseMove_ChecksOnePanel ==
    /\ ~result.isNull
    /\ \E deltaPercentage \in Deltas :
        /\ movement' = deltaPercentage
        /\ IF isResizing = NoIndex
           THEN widths' = widths
           ELSE LET a == isResizing + 1
                    b == isResizing + 2
                IN  IF widths[a] + deltaPercentage > 10
                    THEN widths' = [widths EXCEPT ![a] = @ + deltaPercentage,
                                                   ![b] = @ - deltaPercentage]
                    ELSE widths' = widths
    /\ UNCHANGED <<analyzeUser, graphViewMode, currentIndex, deckTimers, asking, isResizing>>
    /\ UNCHANGED <<evars, avars, gvars, xvars, fvars>>

\* handleMouseMove(e), which listens on the window while there is a result
HandleMouseMove ==
    /\ ~result.isNull
    /\ \E deltaPercentage \in Deltas :
        /\ movement' = deltaPercentage
        /\ IF isResizing = NoIndex
           THEN widths' = widths
           ELSE LET a == isResizing + 1
                    b == isResizing + 2
                IN  IF widths[a] + deltaPercentage > 10 /\ widths[b] - deltaPercentage > 10
                    THEN widths' = [widths EXCEPT ![a] = @ + deltaPercentage,
                                                   ![b] = @ - deltaPercentage]
                    ELSE widths' = widths
    /\ UNCHANGED <<analyzeUser, graphViewMode, currentIndex, deckTimers, asking, isResizing>>
    /\ UNCHANGED <<evars, avars, gvars, xvars, fvars>>

\* handleMouseUp
HandleMouseUp ==
    /\ ~result.isNull
    /\ isResizing' = NoIndex
    /\ UNCHANGED <<analyzeUser, graphViewMode, currentIndex, deckTimers, asking, widths,
                   movement>>
    /\ UNCHANGED <<evars, avars, gvars, xvars, fvars>>

NextPanels ==
    \/ HistoryClick
    \/ HandleReset
    \/ StartResize
    \/ HandleMouseMove
    \/ HandleMouseUp

SpecPanels == InitApp /\ [][NextPanels]_vars

\* --------------------------------------------------- claims on the levels
Dangling(e) == e.from \notin Ids(data.nodes) \/ e.to \notin Ids(data.nodes)
HasDangling == \E k \in 1..Len(data.edges) : Dangling(data.edges[k])
InDegree(id) == Cardinality({k \in 1..Len(data.edges) : data.edges[k].to = id})
OutDegree(id) == Cardinality({k \in 1..Len(data.edges) : data.edges[k].from = id})
EveryNodeLevelled ==
    /\ Len(nodes) = Len(data.nodes)
    /\ \A k \in 1..Len(nodes) : nodes[k].level \in Nat
LevelOver == lpc \in {"done", "threw"}

\* C6: for any list of at least one node and any edge list, level assignment ends
\* with every node holding an integer level >= 0
C6_EveryNodeGetsLevel ==
    (Len(data.nodes) > 0 /\ ~data.edgesMissing /\ LevelOver) =>
        (lpc = "done" /\ EveryNodeLevelled)

\* C7: with a zero in-degree node, a second run on the same data gives the same level
\* map and the same node levels as the first, and no run alters the data
HasRoot == \E k \in 1..Len(data.nodes) : InDegree(data.nodes[k].id) = 0
LevelsOf(ns) == [k \in 1..Len(ns) |-> ns[k].level]
C7_LevellingIdempotent ==
    /\ HasRoot => \A k \in 1..Len(data.nodes) : data.nodes[k].level = NoLevel
    /\ (HasRoot /\ lpc = "done" /\ runs >= 2) =>
          /\ levels = prevLevels
          /\ \A k \in 1..Len(nodes) :
                nodes[k].level = (IF Has(prevLevels, nodes[k].id)
                                  THEN prevLevels[nodes[k].id] ELSE 0)
C7_Witness ==
    /\ HasRoot
    /\ lpc = "done"
    /\ runs = 2
    /\ \E id \in DOMAIN prevLevels : prevLevels[id] = 2
    /\ \E k \in 1..Len(data.edges) : InDegree(data.edges[k].from) > 0

\* the graph is one directed cycle through all of its nodes
RECURSIVE Follow(_, _)
Follow(id, n) ==
    IF n = 0 THEN {}
    ELSE LET next == data.edges[CHOOSE k \in 1..Len(data.edges) : data.edges[k].from = id].to
         IN  {next} \cup Follow(next, n - 1)
SingleCycle ==
    /\ Len(data.nodes) >= 1
    /\ Len(data.edges) = Len(data.nodes)
    /\ ~HasDangling
    /\ \A id \in Ids(data.nodes) : InDegree(id) = 1 /\ OutDegree(id) = 1
    /\ Follow(data.nodes[1].id, Len(data.nodes)) = Ids(data.nodes)

\* C8: on a single directed cycle the queue loop stops after at most one iteration per
\* node and per edge, no level is written twice, and at the end every node has been
\* given its level exactly once
C8_CycleTerminates ==
    SingleCycle =>
        /\ lpc # "threw"
        /\ iterations <= Len(data.nodes) + Len(data.edges)
        /\ \A id \in DOMAIN assigned : assigned[id] <= 1
        /\ lpc = "loop" => Len(queue) + iterations <= Len(data.nodes) + Len(data.edges)
        /\ lpc = "done" =>
              /\ DOMAIN assigned = Ids(data.nodes)
              /\ DOMAIN levels = Ids(data.nodes)
              /\ EveryNodeLevelled
C8_Witness ==
    /\ SingleCycle
    /\ Len(data.nodes) = 3
    /\ lpc = "done"
    /\ iterations = 4

\* C9: on the end-to-end response extractJson gives an object whose
\* reasoning_graph.nodes has 2 elements, and the levels of that graph are a: 0, b: 1
IdA == <<"a">>
IdB == <<"b">>
C9_EndToEnd ==
    /\ epc = "returned" =>
          /\ ret.kind = "value"
          /\ HasGraph(ret.val)
          /\ Len(Member(Member(ret.val, ReasoningGraph), NodesKey)[2]) = 2
    /\ lpc = "done" =>
          /\ DOMAIN levels = {IdA, IdB}
          /\ levels[IdA] = 0
          /\ levels[IdB] = 1
          /\ LevelsOf(nodes) = <<0, 1>>
    /\ lpc # "threw"
C9_Witness ==
    /\ attempts = <<"strict", "cleaned", "scan">>
    /\ lpc = "done"
    /\ levels[IdA] = 0
    /\ levels[IdB] = 1

\* C10: with nodes and an edge whose from or to is not a node, level assignment
\* completes, the edge adds nothing to the levels and every node has its level
C10_DanglingTolerated ==
    (Len(data.nodes) > 0 /\ HasDangling /\ LevelOver) =>
        /\ lpc = "done"
        /\ EveryNodeLevelled
        /\ DOMAIN levels \subseteq Ids(data.nodes)

\* C11: a graph with nodes and an empty or missing edges collection is laid out as
\* disconnected nodes: level assignment completes and every node is at level 0
C11_NoEdgesIsDisconnected ==
    (Len(data.nodes) > 0 /\ (data.edgesMissing \/ Len(data.edges) = 0) /\ LevelOver) =>
        /\ lpc = "done"
        /\ Len(nodes) = Len(data.nodes)
        /\ \A k \in 1..Len(nodes) : nodes[k].level = 0

\* ---------------------------------------------- claims on the step resolver
\* the state after handleGraphNodeClick ran on a node with an id and a step list
AfterNodeClick == clicked.hasId /\ clicked.id # <<>> /\ HasSteps(result)
Steps == StepIds(result)
HasDigits(str) == \E q \in 1..Len(str) : IsDigit(str[q])
NodeNum == getNum(clicked.id)
\* the steps (1-based) whose identifier has the number of the node id
Sharing ==
    {k \in 1..Len(Steps) :
        HasDigits(clicked.id) /\ HasDigits(Steps[k]) /\ getNum(Steps[k]) = NodeNum}
\* the steps (1-based) whose identifier is the node id
ExactHits == {k \in 1..Len(Steps) : Steps[k] = clicked.id}
PositionValid == HasDigits(clicked.id) /\ NodeNum >= 1 /\ NodeNum <= Len(Steps)
\* the matching policy of the contract: unique number, else exact, else position
PolicyIndex ==
    IF Cardinality(Sharing) = 1 THEN (CHOOSE k \in Sharing : TRUE) - 1
    ELSE IF ExactHits # {} THEN Min(ExactHits) - 1
    ELSE IF PositionValid THEN NodeNum - 1
    ELSE NoIndex

\* C12: when some step's step_id is the node id, the step highlighted is a step
\* whose step_id is the node id, whatever other steps share the node id's number
C12_ExactMatchWins ==
    (AfterNodeClick /\ ExactHits # {}) => (focusedStepIndex + 1) \in ExactHits

\* C13: for a node id with a number, a step is chosen by number only when it is the
\* one step with that number; when several steps have it, the exact match and then
\* the position decide
C13_NumericOnlyWhenUnique ==
    (AfterNodeClick /\ HasDigits(clicked.id)) =>
        /\ Cardinality(Sharing) = 1 => (focusedStepIndex + 1) \in Sharing
        /\ Cardinality(Sharing) > 1 =>
              focusedStepIndex = (IF ExactHits # {} THEN Min(ExactHits) - 1
                                  ELSE IF PositionValid THEN NodeNum - 1
                                  ELSE NoIndex)

\* C14: a node id without digits highlights the step whose step_id it is, and no
\* step otherwise
C14_NoDigitsNoNumber ==
    (AfterNodeClick /\ ~HasDigits(clicked.id)) =>
        IF ExactHits # {} THEN (focusedStepIndex + 1) \in ExactHits
        ELSE focusedStepIndex = NoIndex

\* C15: no step has the node id's number, none has its id, and the number is beyond
\* the end of the step list: nothing is highlighted
C15_OutOfRangeIsNoMatch ==
    (/\ AfterNodeClick
     /\ HasDigits(clicked.id)
     /\ \A k \in 1..Len(Steps) : getNum(Steps[k]) # NodeNum /\ Steps[k] # clicked.id
     /\ NodeNum > Len(Steps)) => focusedStepIndex = NoIndex
C15_Witness ==
    /\ AfterNodeClick
    /\ clicked.id = <<"5">>
    /\ Len(Steps) = 3
    /\ \A k \in 1..Len(Steps) : getNum(Steps[k]) # 5
    /\ selectedNode = clicked
    /\ focusedStepIndex = NoIndex

\* C16: when no single step has the node id's number, no step has its id, and the
\* number n is between 1 and the number of steps, step n - 1 is highlighted
C16_PositionalFallback ==
    (/\ AfterNodeClick
     /\ Cardinality(Sharing) # 1
     /\ ExactHits = {}
     /\ PositionValid) => focusedStepIndex = NodeNum - 1

\* C17: after a background click, a click with no step list in the result, or a
\* node click that the matching policy resolves to no match, no step is highlighted
C17_NoMatchClearsHighlight ==
    /\ (~clicked.hasId \/ ~HasSteps(result)) => focusedStepIndex = NoIndex
    /\ (AfterNodeClick /\ PolicyIndex = NoIndex) => focusedStepIndex = NoIndex

\* ------------------------------------------- claims on dragging and passes
Pinned(k) == pos[k].fx # NoCoord /\ pos[k].fy # NoCoord
Unpinned(k) == pos[k].fx = NoCoord /\ pos[k].fy = NoCoord

\* C18: while a node is dragged its fx and fy are set and are the position of the
\* latest drag event; a node that is not dragged has fx and fy null, so they are
\* null again after the drag ended; an event changes fx and fy of no node but its own
PinnedWhileDragged ==
    \A k \in 1..Len(pos) :
        IF gesture[k].active
        THEN Pinned(k) /\ pos[k].fx = gesture[k].x /\ pos[k].fy = gesture[k].y
        ELSE Unpinned(k)
OthersKeepFixed ==
    \A k \in 1..Len(pos) :
        (Len(pos') = Len(pos) /\ gesture'[k] = gesture[k]) =>
            (pos'[k].fx = pos[k].fx /\ pos'[k].fy = pos[k].fy)
C18_DraggedNodePinned == []PinnedWhileDragged /\ [][OthersKeepFixed]_vars
C18_Witness ==
    /\ Len(pos) = 2
    /\ gesture[1].active /\ gesture[1].x = 1 /\ gesture[1].y = 1
    /\ pos[1].fx = 1 /\ pos[1].fy = 1 /\ pos[1].y = 0
    /\ gesture[2].active /\ gesture[2].x = 0
    /\ pos[2].fx = 0 /\ pos[2].fy = 1

\* C19: no callback of a pass (tick, zoom-fit timer or the transition it started)
\* does anything to the SVG after the cleanup of that pass ran
C19_CleanedPassIsSilent == staleActs = {}

\* ---------------------------------------------- claims on the scan steps
\* the scan is about to read cleanText[i] (the character at i + 1 here)
Scanning == epc = "scan" /\ endIndex = -1 /\ i < Len(cleanText)
NextChar == cleanText[i + 1]
ScanStepTaken == i' # i \/ endIndex' # endIndex

\* C20: a step of the scan changes the depth only for a brace read outside string
\* mode; in string mode a backslash makes the next character, and only that one,
\* inert, and only a quote that is not escaped ends string mode; the depth is >= 1
\* after the first '{' while the scan goes on, and the scan stops where it is 0 again
DepthOnlyOnBraces ==
    /\ braceCount' # braceCount => (~inString /\ NextChar \in {"{", "}"})
    /\ (~inString /\ NextChar = "{") => braceCount' = braceCount + 1
    /\ (~inString /\ NextChar = "}") => braceCount' = braceCount - 1
EscapeIsOneCharacter ==
    /\ (inString /\ escaped) => (inString' /\ ~escaped')
    /\ (inString /\ ~escaped /\ NextChar = BS) => (inString' /\ escaped')
    /\ (inString /\ ~escaped /\ NextChar = Q) => (~inString' /\ ~escaped')
    /\ (inString /\ ~inString') => (~escaped /\ NextChar = Q)
    /\ (~inString /\ inString') <=> (~inString /\ NextChar = Q)
    /\ escaped' => inString'
StopsAtDepthZero ==
    /\ (endIndex' # -1) <=> (braceCount' = 0)
    /\ endIndex' # -1 => endIndex' = i
DepthPositive ==
    (epc = "scan" /\ endIndex = -1 /\ i > startIndex) => braceCount >= 1
C20_ScanStepRules ==
    /\ []DepthPositive
    /\ [][(Scanning /\ ScanStepTaken) =>
            (DepthOnlyOnBraces /\ EscapeIsOneCharacter /\ StopsAtDepthZero)]_vars
C20_Witness ==
    /\ epc = "scan"
    /\ endIndex = -1
    /\ i >= startIndex + 3
    /\ inString /\ ~escaped
    /\ cleanText[i] = Q /\ cleanText[i - 1] = BS
    /\ braceCount = 1

\* ------------------------------------------------ seeds and reachability
ZeroIn == {id \in Ids(data.nodes) : InDegree(id) = 0}
Seeds ==
    IF ZeroIn # {} THEN ZeroIn
    ELSE IF Len(data.nodes) > 0 THEN {data.nodes[1].id} ELSE {}
JustSeeded == lpc = "loop" /\ iterations = 0
LevelOf(id) == nodes[CHOOSE k \in 1..Len(nodes) : nodes[k].id = id].level

\* C21: the queue is seeded with every node of in-degree zero, in input order and at
\* depth 0, and only when there is none with exactly one node, the first of the input;
\* every seed ends with level 0
C21_SeedsAreZeroInDegree ==
    /\ JustSeeded =>
          /\ \A k \in 1..Len(queue) : queue[k].depth = 0
          /\ {queue[k].id : k \in 1..Len(queue)} = Seeds
          /\ Len(queue) = Cardinality(Seeds)
          /\ ZeroIn = {} => Len(queue) <= 1
          /\ \A j, k \in 1..Len(queue) :
                j < k => \E a, b \in 1..Len(data.nodes) :
                            /\ a < b
                            /\ data.nodes[a].id = queue[j].id
                            /\ data.nodes[b].id = queue[k].id
    /\ lpc = "done" => \A id \in Seeds : LevelOf(id) = 0
C21_Witness ==
    /\ JustSeeded
    /\ Cardinality(ZeroIn) = 2
    /\ Len(queue) = 2
    /\ Len(data.edges) >= 2
C21_FallbackWitness ==
    /\ lpc = "done"
    /\ ZeroIn = {}
    /\ Len(data.nodes) = 3
    /\ LevelOf(data.nodes[1].id) = 0
    /\ \E k \in 1..Len(nodes) : nodes[k].level = 2

\* the nodes that a path of edges reaches from the seeds
RECURSIVE ReachFrom(_, _)
ReachFrom(S, n) ==
    IF n = 0 THEN S
    ELSE ReachFrom(S \cup {data.edges[k].to : k \in {j \in 1..Len(data.edges) :
                                                        data.edges[j].from \in S}}, n - 1)
Reachable == ReachFrom(Seeds, Len(data.nodes))

\* C22: a node that no path of edges reaches from a seed ends with level 0
C22_UnreachedIsLevelZero ==
    lpc = "done" =>
        \A k \in 1..Len(nodes) : nodes[k].id \notin Reachable => nodes[k].level = 0
C22_Witness ==
    /\ lpc = "done"
    /\ \E k \in 1..Len(nodes) : nodes[k].id \notin Reachable /\ InDegree(nodes[k].id) > 0
    /\ \E k \in 1..Len(nodes) : nodes[k].level > 0

\* no path of one or more edges leads from a node back to itself
Succ(S) == {data.edges[k].to : k \in {j \in 1..Len(data.edges) : data.edges[j].from \in S}}
RECURSIVE Descendants(_, _)
Descendants(S, n) == IF n = 0 THEN S ELSE Descendants(S \cup Succ(S), n - 1)
Acyclic == \A id \in Ids(data.nodes) : id \notin Descendants(Succ({id}), Len(data.nodes))
EdgesJoinNodes == ~data.edgesMissing /\ ~HasDangling

\* C23 as stated: on an acyclic graph every edge goes to a strictly deeper level
C23_EdgesPointDown_Original ==
    (lpc = "done" /\ EdgesJoinNodes /\ Acyclic) =>
        \A k \in 1..Len(data.edges) :
            LevelOf(data.edges[k].to) > LevelOf(data.edges[k].from)

\* C23: on an acyclic graph whose edges all join existing nodes no edge goes down more
\* than one level, and every node with an incoming edge is exactly one level below
\* one of the nodes that point to it
C23_EdgesPointDown ==
    (lpc = "done" /\ EdgesJoinNodes /\ Acyclic) =>
        /\ \A k \in 1..Len(data.edges) :
              LevelOf(data.edges[k].to) <= LevelOf(data.edges[k].from) + 1
        /\ \A id \in Ids(data.nodes) :
              InDegree(id) > 0 =>
                  \E k \in 1..Len(data.edges) :
                      /\ data.edges[k].to = id
                      /\ LevelOf(id) = LevelOf(data.edges[k].from) + 1
C23_Witness ==
    /\ lpc = "done"
    /\ EdgesJoinNodes
    /\ Acyclic
    /\ Len(data.edges) = 3
    /\ \E k \in 1..Len(data.edges) :
          /\ LevelOf(data.edges[k].to) = 1
          /\ LevelOf(data.edges[k].from) = 1

\* the least number of edges on a path from a seed
Dist(id) == Min({n \in 0..Len(data.nodes) : id \in ReachFrom(Seeds, n)})

\* C25: on a graph whose edges all join existing nodes the level of every node that a
\* seed reaches is its least distance in edges from a seed, whatever the order of the
\* edge list
C25_LevelIsBfsDistance ==
    (lpc = "done" /\ EdgesJoinNodes) =>
        \A id \in Reachable \cap Ids(data.nodes) : LevelOf(id) = Dist(id)
C25_Witness ==
    /\ lpc = "done"
    /\ EdgesJoinNodes
    /\ ~Acyclic
    /\ Reachable = Ids(data.nodes)
    /\ \E id \in Ids(data.nodes) : LevelOf(id) = 2 /\ InDegree(id) = 1
    /\ \E id \in Ids(data.nodes) : LevelOf(id) = 1 /\ InDegree(id) = 2

\* ------------------------------------------------------ claims on zoom-fit
Fitted == transform.by # 0
\* the padded box under the transform, in units of 1 / (2 * kd)
PaddedLeft == transform.xn + 2 * transform.kn * (bbox.x - padding)
PaddedRight == transform.xn + 2 * transform.kn * (bbox.x + bbox.width + padding)
PaddedTop == transform.yn + 2 * transform.kn * (bbox.y - padding)
PaddedBottom == transform.yn + 2 * transform.kn * (bbox.y + bbox.height + padding)
Inside ==
    /\ PaddedLeft >= 0
    /\ PaddedRight <= 2 * transform.kd * dimensions.width
    /\ PaddedTop >= 0
    /\ PaddedBottom <= 2 * transform.kd * dimensions.height
Centred ==
    /\ PaddedLeft + PaddedRight = 2 * transform.kd * dimensions.width
    /\ PaddedTop + PaddedBottom = 2 * transform.kd * dimensions.height

C26_FocusIsValidIndex ==
    \/ focusedStepIndex = NoIndex
    \/ /\ HasSteps(result)
       /\ focusedStepIndex \in 0..(Len(StepIds(result)) - 1)

\* C27: once the user has logged out with an analysis in flight, no step restores the
\* user or sets a result
LoggedOutInFlight ==
    /\ user.isNull
    /\ ~analyzeUser.isNull
    /\ apc \in {"awaiting", "settled"}
C27_StaysLoggedOut == [][LoggedOutInFlight => (user'.isNull /\ result'.isNull)]_vars

\* C30: every message of the chat list was made for the result on display
C30_MessagesOfShownResult ==
    \A k \in 1..Len(messages) : ~result.isNull /\ messages[k].of = result.rawText

\* C28: the index of the deck on display is an index into its cards
C28_CurrentCardDefined ==
    (DeckMounted /\ Len(Cards(result)) > 0) =>
        currentIndex \in 0..(Len(Cards(result)) - 1)

\* C29: the three widths add up to 100 and each is more than 10; a mouse move on
\* divider i gives what it takes from one of the panels i and i+1 to the other and
\* leaves the third alone, and changes nothing if one of the two would be left
\* with 10 or less
WidthsValid ==
    /\ widths[1] + widths[2] + widths[3] = 100
    /\ \A k \in 1..3 : widths[k] > 10
DragRules ==
    (HandleMouseMove /\ isResizing # NoIndex) =>
        LET a == isResizing + 1
            b == isResizing + 2
        IN  /\ \A k \in 1..3 : k \notin {a, b} => widths'[k] = widths[k]
            /\ widths'[a] + widths'[b] = widths[a] + widths[b]
            /\ (widths[a] + movement' <= 10 \/ widths[b] - movement' <= 10) => widths' = widths
            /\ (widths[a] + movement' > 10 /\ widths[b] - movement' > 10) =>
                    widths'[a] = widths[a] + movement'
====
